---- MODULE Spec2Model ----
(***************************************************************************)
(* A model of the everlend lending-contract client API: the record layouts *)
(* (layout.ts and its later generations), the state decoders (state.ts)    *)
(* and the account readers of LendingMarket (index.ts).                    *)
(*                                                                         *)
(* Account data is modelled byte for byte: a buffer is a sequence of       *)
(* numbers 0..255, an address (PublicKey) is its 32 bytes, and a u64 is    *)
(* the sequence of its eight base-256 digits, most significant first (the  *)
(* digits of the BN that u64.fromBuffer builds), so that no 64-bit value   *)
(* is ever computed as a number.                                           *)
(***************************************************************************)
EXTENDS Integers, Sequences, FiniteSets, TLC

VARIABLES
    registry,   \* which generation of layout.ts './layout' resolves to
    accounts,   \* the ledger: address -> account (owner, data) or NoAccount
    writes,     \* number of ledger updates made by other parties so far
    result,     \* outcome of the last call made on the LendingMarket
    lendingMarket   \* the LendingMarket: its pubkey, programId and _payer

vars == <<registry, accounts, writes, result, lendingMarket>>

(***************************************************************************)
(* Bounds of the model.                                                    *)
(***************************************************************************)
\* Ledger updates by other parties in one behaviour.
MaxWrites == 1

(***************************************************************************)
(* Bytes, addresses, u64.                                                  *)
(***************************************************************************)
Undefined == "undefined"

\* A fixed 32-byte address; distinct n give distinct addresses, and no two
\* bytes of one address are equal, so a shifted or reversed read shows.
Key(n) == [i \in 1..32 |-> (n * 40 + i) % 256]

PROGRAM_ID        == Key(1)
OTHER_PROGRAM     == Key(2)
MARKET_PUBKEY     == Key(3)
LIQUIDITY_PUBKEY  == Key(4)
COLLATERAL_PUBKEY == Key(5)
OBLIGATION_PUBKEY == Key(6)
OWNER_KEY         == Key(7)
TOKEN_MINT        == Key(8)
TOKEN_ACCOUNT     == Key(9)
POOL_MINT         == Key(10)
ORACLE_KEY        == Key(11)

Zeros(n) == [i \in 1..n |-> 0]

\* A Signer (a Keypair), and the payer of a LendingMarket made without one.
Signer(publicKey) == [publicKey |-> publicKey]

NoSigner == [none |-> TRUE]

\* new LendingMarket(connection, pubkey, programId, payer)
LendingMarket_new(pubkey, programId, payer) ==
    [pubkey |-> pubkey, programId |-> programId, payer |-> payer]

\* LendingMarket.init(connection, pubkey, payer)
LendingMarket_init(pubkey, payer) == LendingMarket_new(pubkey, PROGRAM_ID, payer)

\* new PublicKey(blob): the bytes are kept as a big-endian number of at most
\* 32 bytes; toBuffer()/equals() see it zero-padded on the left to 32 bytes.
PublicKey(value) ==
    IF Len(value) > 32 THEN Undefined
    ELSE Zeros(32 - Len(value)) \o value

\* u64.fromBuffer(buffer): the 8 bytes reversed and read as a hexadecimal
\* number, i.e. buffer[0] is the least significant digit.  The result is
\* the digit sequence of that number, most significant digit first.
u64_fromBuffer(buffer) == [i \in 1..8 |-> buffer[9 - i]]

\* The digit of weight 256^k (k = 0..7) of a u64 value.
Digit(value, k) == value[8 - k]

(***************************************************************************)
(* baseLayout.ts and the buffer-layout field factories.                    *)
(***************************************************************************)
\* BufferLayout.u8(property): one byte, decoded as a number.
u8(property) == [property |-> property, span |-> 1, type |-> "u8"]

\* BufferLayout.blob(length, property): length bytes, decoded as a slice.
blob(length, property) == [property |-> property, span |-> length, type |-> "blob"]

publicKey(property) == blob(32, property)

uint64(property) == blob(8, property)

\* BufferLayout.uint64 is not an export of buffer-layout (its 64-bit
\* layouts are nu64/ns64): calling it throws while the module is evaluated.
BufferLayout_uint64(property) == [property |-> property, span |-> 0, type |-> Undefined]

(***************************************************************************)
(* layout.ts: the three generations of the layout registry.                *)
(*   GenA  src/api/src/layout.ts                                           *)
(*   GenB  src/unnamed/part_002                                            *)
(*   GenC  src/unnamed/part_001                                            *)
(***************************************************************************)
Generations == {"GenA", "GenB", "GenC"}

MarketLayout(gen) ==
    << u8("version"),
       publicKey("owner"),
       uint64("liquidity_tokens"),
       uint64("collateral_tokens") >>

LiquidityLayout(gen) ==
    << u8("version"),
       u8("status"),
       publicKey("market"),
       publicKey("token_mint"),
       publicKey("token_account"),
       publicKey("pool_mint") >>
    \o CASE gen = "GenA" -> << >>
         [] gen = "GenB" -> << BufferLayout_uint64("amount_borrowed") >>
         [] gen = "GenC" -> << uint64("amount_borrowed"), publicKey("oracle") >>

CollateralLayout(gen) ==
    << u8("version"),
       u8("status"),
       publicKey("market"),
       publicKey("token_mint"),
       publicKey("token_account"),
       uint64("ratio_initial"),
       uint64("ratio_healthy") >>
    \o CASE gen = "GenC" -> << publicKey("oracle") >>
         [] OTHER -> << >>

\* Declared by part_001 only.
ObligationLayout(gen) ==
    << u8("version"),
       publicKey("market"),
       publicKey("owner"),
       publicKey("liquidity"),
       publicKey("collateral"),
       uint64("amount_liquidity_borrowed"),
       uint64("amount_collateral_deposited") >>

Kinds == {"Market", "Liquidity", "Collateral", "Obligation"}

\* The record layouts a generation of layout.ts exports.
Exports(gen) ==
    IF gen = "GenC" THEN Kinds ELSE {"Market", "Liquidity", "Collateral"}

LayoutOf(gen, kind) ==
    CASE kind = "Market"     -> MarketLayout(gen)
      [] kind = "Liquidity"  -> LiquidityLayout(gen)
      [] kind = "Collateral" -> CollateralLayout(gen)
      [] kind = "Obligation" -> ObligationLayout(gen)

\* Evaluating layout.ts succeeds iff every field factory it calls exists.
ModuleLoads(gen) ==
    \A kind \in Exports(gen) :
        \A i \in DOMAIN LayoutOf(gen, kind) : LayoutOf(gen, kind)[i].type # Undefined

\* What `import { XLayout } from './layout'` yields.
Declared(gen, kind) == ModuleLoads(gen) /\ kind \in Exports(gen)

(***************************************************************************)
(* buffer-layout Structure: span, field offsets, decode and encode.        *)
(***************************************************************************)
RECURSIVE SpanUpTo(_, _)
\* Sum of the spans of the first n fields.
SpanUpTo(layout, n) ==
    IF n = 0 THEN 0 ELSE SpanUpTo(layout, n - 1) + layout[n].span

\* Structure.span: the sum of the spans of its fields.
span(layout) == SpanUpTo(layout, Len(layout))

\* Structure.decode advances the offset by each field's span.
OffsetOf(layout, i) == SpanUpTo(layout, i - 1)

Properties(layout) == {layout[i].property : i \in DOMAIN layout}

IndexOf(layout, property) ==
    CHOOSE i \in DOMAIN layout : layout[i].property = property

\* Structure.decode(b): property -> decoded value.  UInt.decode reads the byte
\* at the offset (past the end of the buffer it throws; the readers check the
\* length first, so that is not reached); Blob.decode is
\* b.slice(offset, offset + span), shorter than span when the buffer ends early.
DecodeField(layout, i, b) ==
    LET off == OffsetOf(layout, i) IN
    IF layout[i].type = "u8"
    THEN IF off + 1 <= Len(b) THEN b[off + 1] ELSE Undefined
    ELSE SubSeq(b, off + 1, IF off + layout[i].span <= Len(b)
                            THEN off + layout[i].span ELSE Len(b))

decode(layout, b) ==
    [p \in Properties(layout) |-> DecodeField(layout, IndexOf(layout, p), b)]

RECURSIVE EncodeUpTo(_, _, _)
\* The bytes of the first n fields of `values` in layout order.
EncodeUpTo(layout, values, n) ==
    IF n = 0 THEN << >>
    ELSE EncodeUpTo(layout, values, n - 1)
         \o (IF layout[n].type = "u8"
             THEN << values[layout[n].property] >>
             ELSE values[layout[n].property])

\* Structure.encode(values, b) on a buffer of span bytes.
encode(layout, values) == EncodeUpTo(layout, values, Len(layout))

(***************************************************************************)
(* state.ts: the decoders.  Each is called only with its layout declared.  *)
(***************************************************************************)
\* Market.from with the two token counts exchanged.
Market_from_countsSwapped(gen, buffer) ==
    LET d == decode(MarketLayout(gen), buffer) IN
    [ version          |-> d.version,
      owner            |-> PublicKey(d.owner),
      liquidityTokens  |-> u64_fromBuffer(d.collateral_tokens),
      collateralTokens |-> u64_fromBuffer(d.liquidity_tokens) ]

Market_from(gen, buffer) ==
    LET d == decode(MarketLayout(gen), buffer) IN
    [ version          |-> d.version,
      owner            |-> PublicKey(d.owner),
      liquidityTokens  |-> u64_fromBuffer(d.liquidity_tokens),
      collateralTokens |-> u64_fromBuffer(d.collateral_tokens) ]

\* `status as LiquidityStatus` is a compile-time cast: the byte is kept.
Liquidity_from(gen, buffer) ==
    LET d == decode(LiquidityLayout(gen), buffer) IN
    [ version      |-> d.version,
      status       |-> d.status,
      market       |-> PublicKey(d.market),
      tokenMint    |-> PublicKey(d.token_mint),
      tokenAccount |-> PublicKey(d.token_account),
      poolMint     |-> PublicKey(d.pool_mint) ]

Collateral_from(gen, buffer) ==
    LET d == decode(CollateralLayout(gen), buffer) IN
    [ version      |-> d.version,
      status       |-> d.status,
      market       |-> PublicKey(d.market),
      tokenMint    |-> PublicKey(d.token_mint),
      tokenAccount |-> PublicKey(d.token_account),
      ratioInitial |-> u64_fromBuffer(d.ratio_initial),
      ratioHealthy |-> u64_fromBuffer(d.ratio_healthy) ]

Obligation_from(gen, buffer) ==
    LET d == decode(ObligationLayout(gen), buffer) IN
    [ version                   |-> d.version,
      market                    |-> PublicKey(d.market),
      owner                     |-> PublicKey(d.owner),
      liquidity                 |-> PublicKey(d.liquidity),
      collateral                |-> PublicKey(d.collateral),
      amountLiquidityBorrowed   |-> u64_fromBuffer(d.amount_liquidity_borrowed),
      amountCollateralDeposited |-> u64_fromBuffer(d.amount_collateral_deposited) ]

From(kind, gen, buffer) ==
    CASE kind = "Market"     -> Market_from(gen, buffer)
      [] kind = "Liquidity"  -> Liquidity_from(gen, buffer)
      [] kind = "Collateral" -> Collateral_from(gen, buffer)
      [] kind = "Obligation" -> Obligation_from(gen, buffer)

\* The entity field each layout property is returned as by the decoders;
\* amount_borrowed and oracle are returned by none of them, and are named as
\* index.ts reads them (liquidity.oracle, collateral.oracle).
FieldName(property) ==
    CASE property = "liquidity_tokens"            -> "liquidityTokens"
      [] property = "collateral_tokens"           -> "collateralTokens"
      [] property = "token_mint"                  -> "tokenMint"
      [] property = "token_account"               -> "tokenAccount"
      [] property = "pool_mint"                   -> "poolMint"
      [] property = "ratio_initial"               -> "ratioInitial"
      [] property = "ratio_healthy"               -> "ratioHealthy"
      [] property = "amount_liquidity_borrowed"   -> "amountLiquidityBorrowed"
      [] property = "amount_collateral_deposited" -> "amountCollateralDeposited"
      [] property = "amount_borrowed"             -> "amountBorrowed"
      [] OTHER                                    -> property

\* The values of the enums LiquidityStatus and CollateralStatus.
LiquidityStatus == {0, 1, 2}

CollateralStatus == {0, 1, 2}

(***************************************************************************)
(* index.ts: LendingMarket's account readers.  A call returns an outcome:  *)
(* the error thrown ("none" when it returns), the account it fetched and   *)
(* the entity it returns.                                                  *)
(***************************************************************************)
NoAccount == [exists |-> FALSE, owner |-> << >>, data |-> << >>]

Account(owner, data) == [exists |-> TRUE, owner |-> owner, data |-> data]

NoEntity == [none |-> TRUE]

Throw(error, info) == [error |-> error, info |-> info, entity |-> NoEntity]

Return(info, entity) == [error |-> "none", info |-> info, entity |-> entity]

\* Reading a property of an undefined import.
TypeError == "TypeError"

\* getOwnedAccountInfo without its owner check.
getOwnedAccountInfo_anyOwner(ledger, pubkey) ==
    LET info == ledger[pubkey] IN
    IF ~info.exists THEN Throw("Failed to find account", info)
    ELSE Return(info, NoEntity)

\* getOwnedAccountInfo inspecting the owner before the presence.
getOwnedAccountInfo_ownerFirst(ledger, pubkey) ==
    LET info == ledger[pubkey] IN
    IF info.owner # PROGRAM_ID THEN Throw("Invalid owner", info)
    ELSE IF ~info.exists THEN Throw("Failed to find account", info)
    ELSE Return(info, NoEntity)

getOwnedAccountInfo(ledger, pubkey) ==
    LET info == ledger[pubkey] IN
    IF ~info.exists THEN Throw("Failed to find account", info)
    ELSE IF info.owner # PROGRAM_ID THEN Throw("Invalid owner", info)
    ELSE Return(info, NoEntity)

getMarketInfo(ledger, gen) ==
    LET owned == getOwnedAccountInfo(ledger, MARKET_PUBKEY) IN
    IF owned.error # "none" THEN owned
    ELSE IF ~Declared(gen, "Market") THEN Throw(TypeError, owned.info)
    ELSE IF Len(owned.info.data) # span(MarketLayout(gen))
    THEN Throw("Invalid market size", owned.info)
    ELSE Return(owned.info,
                [pubkey |-> MARKET_PUBKEY] @@ Market_from(gen, owned.info.data))

\* getLiquidityInfo with the size check made on the fetched account before
\* the owner check.
getLiquidityInfo_sizeFirst(ledger, gen, liquidityPubkey) ==
    LET info == ledger[liquidityPubkey] IN
    IF ~info.exists THEN Throw("Failed to find account", info)
    ELSE IF ~Declared(gen, "Liquidity") THEN Throw(TypeError, info)
    ELSE IF Len(info.data) # span(LiquidityLayout(gen))
    THEN Throw("Invalid liquidity size", info)
    ELSE IF info.owner # PROGRAM_ID THEN Throw("Invalid owner", info)
    ELSE Return(info, [pubkey |-> liquidityPubkey] @@ Liquidity_from(gen, info.data))

getLiquidityInfo(ledger, gen, liquidityPubkey) ==
    LET owned == getOwnedAccountInfo(ledger, liquidityPubkey) IN
    IF owned.error # "none" THEN owned
    ELSE IF ~Declared(gen, "Liquidity") THEN Throw(TypeError, owned.info)
    ELSE IF Len(owned.info.data) # span(LiquidityLayout(gen))
    THEN Throw("Invalid liquidity size", owned.info)
    ELSE Return(owned.info,
                [pubkey |-> liquidityPubkey] @@ Liquidity_from(gen, owned.info.data))

\* getCollateralInfo rejecting only data shorter than the span.
getCollateralInfo_atLeastSpan(ledger, gen, collateralPubkey) ==
    LET owned == getOwnedAccountInfo(ledger, collateralPubkey) IN
    IF owned.error # "none" THEN owned
    ELSE IF ~Declared(gen, "Collateral") THEN Throw(TypeError, owned.info)
    ELSE IF Len(owned.info.data) < span(CollateralLayout(gen))
    THEN Throw("Invalid collateral size", owned.info)
    ELSE Return(owned.info,
                [pubkey |-> collateralPubkey] @@ Collateral_from(gen, owned.info.data))

getCollateralInfo(ledger, gen, collateralPubkey) ==
    LET owned == getOwnedAccountInfo(ledger, collateralPubkey) IN
    IF owned.error # "none" THEN owned
    ELSE IF ~Declared(gen, "Collateral") THEN Throw(TypeError, owned.info)
    ELSE IF Len(owned.info.data) # span(CollateralLayout(gen))
    THEN Throw("Invalid collateral size", owned.info)
    ELSE Return(owned.info,
                [pubkey |-> collateralPubkey] @@ Collateral_from(gen, owned.info.data))

\* ObligationLayout is undefined unless layout.ts declares it: the size
\* check's read of ObligationLayout.span then throws a TypeError.
getObligationInfo(ledger, gen, obligatioPubkey) ==
    LET owned == getOwnedAccountInfo(ledger, obligatioPubkey) IN
    IF owned.error # "none" THEN owned
    ELSE IF ~Declared(gen, "Obligation") THEN Throw(TypeError, owned.info)
    ELSE IF Len(owned.info.data) # span(ObligationLayout(gen))
    THEN Throw("Invalid obligation size", owned.info)
    ELSE Return(owned.info,
                [pubkey |-> obligatioPubkey] @@ Obligation_from(gen, owned.info.data))

\* The message of the size check of each reader.
SizeError(kind) ==
    CASE kind = "Market"     -> "Invalid market size"
      [] kind = "Liquidity"  -> "Invalid liquidity size"
      [] kind = "Collateral" -> "Invalid collateral size"
      [] kind = "Obligation" -> "Invalid obligation size"

(***************************************************************************)
(* The ledger the LendingMarket reads: one account of each kind, at the    *)
(* addresses the tests use, written by the on-chain program and by other   *)
(* parties.                                                                *)
(***************************************************************************)
FetchKeys == {MARKET_PUBKEY, LIQUIDITY_PUBKEY, COLLATERAL_PUBKEY, OBLIGATION_PUBKEY}

\* The kind of record the on-chain program keeps at each address.
KindAt(key) ==
    CASE key = MARKET_PUBKEY     -> "Market"
      [] key = LIQUIDITY_PUBKEY  -> "Liquidity"
      [] key = COLLATERAL_PUBKEY -> "Collateral"
      [] key = OBLIGATION_PUBKEY -> "Obligation"

\* Field values of a record of each kind (every field of every generation).
FixtureValues(kind, version, status) ==
    CASE kind = "Market" ->
            [ version           |-> version,
              owner             |-> OWNER_KEY,
              liquidity_tokens  |-> <<1, 0, 0, 0, 0, 0, 0, 0>>,
              collateral_tokens |-> <<1, 0, 0, 0, 0, 0, 0, 0>> ]
      [] kind = "Liquidity" ->
            [ version         |-> version,
              status          |-> status,
              market          |-> MARKET_PUBKEY,
              token_mint      |-> TOKEN_MINT,
              token_account   |-> TOKEN_ACCOUNT,
              pool_mint       |-> POOL_MINT,
              amount_borrowed |-> <<21, 22, 23, 24, 25, 26, 27, 28>>,
              oracle          |-> ORACLE_KEY ]
      [] kind = "Collateral" ->
            [ version       |-> version,
              status        |-> status,
              market        |-> MARKET_PUBKEY,
              token_mint    |-> TOKEN_MINT,
              token_account |-> TOKEN_ACCOUNT,
              ratio_initial |-> <<31, 32, 33, 34, 35, 36, 37, 38>>,
              ratio_healthy |-> <<255, 255, 255, 255, 255, 255, 255, 255>>,
              oracle        |-> ORACLE_KEY ]
      [] kind = "Obligation" ->
            [ version                     |-> version,
              market                      |-> MARKET_PUBKEY,
              owner                       |-> OWNER_KEY,
              liquidity                   |-> LIQUIDITY_PUBKEY,
              collateral                  |-> COLLATERAL_PUBKEY,
              amount_liquidity_borrowed   |-> <<41, 42, 43, 44, 45, 46, 47, 48>>,
              amount_collateral_deposited |-> <<0, 0, 0, 0, 0, 0, 0, 128>> ]

\* The first n bytes of b, zero-filled when b is shorter.
Resize(b, n) == [i \in 1..n |-> IF i <= Len(b) THEN b[i] ELSE 0]

\* The record of the latest generation, of which every earlier one is a prefix.
FullRecord(kind, version, status) ==
    encode(LayoutOf("GenC", kind), FixtureValues(kind, version, status))

\* The spans some generation of the registry declares for a kind.
SpansOf(kind) ==
    {span(LayoutOf(g, kind)) : g \in {g \in Generations : Declared(g, kind)}}

\* The buffer lengths of the Collateral decoding scenario of the specification.
ScenarioLengths(kind) == IF kind = "Collateral" THEN {41, 74} ELSE {}

\* Account data lengths on the ledger: each declared span, one byte less,
\* one byte more, and the scenario lengths.
WriteLengths(kind) ==
    UNION {{s - 1, s, s + 1} : s \in SpansOf(kind)} \cup ScenarioLengths(kind)

\* Version and status bytes of written records: the supported version and
\* an enum value, another version, and a status byte outside the enum.
WriteVariants(kind) ==
    IF kind \in {"Liquidity", "Collateral"}
    THEN {<<1, 1>>, <<2, 1>>, <<1, 3>>}
    ELSE {<<1, 1>>, <<2, 1>>}

WriteOwners == {PROGRAM_ID, OTHER_PROGRAM}

WritePool(kind) ==
    {Account(o, Resize(FullRecord(kind, vs[1], vs[2]), n)) :
        o \in WriteOwners, vs \in WriteVariants(kind), n \in WriteLengths(kind)}

\* The record the deployed program of the registry's generation keeps.
DeployedRecord(gen, kind) ==
    IF Declared(gen, kind)
    THEN encode(LayoutOf(gen, kind), FixtureValues(kind, 1, 1))
    ELSE FullRecord(kind, 1, 1)

(***************************************************************************)
(* The state machine.                                                      *)
(***************************************************************************)
NoResult ==
    [op |-> "none", kind |-> "none", pubkey |-> << >>,
     error |-> "none", info |-> NoAccount, entity |-> NoEntity]

Outcome(op, kind, pubkey, r) ==
    [op |-> op, kind |-> kind, pubkey |-> pubkey,
     error |-> r.error, info |-> r.info, entity |-> r.entity]

\* index.ts imports './layout': when evaluating that module throws, so does
\* the import, and no method of LendingMarket runs.
Call(gen, r) == IF ModuleLoads(gen) THEN r ELSE Throw(TypeError, NoAccount)

Init ==
    /\ registry \in Generations
    /\ accounts = [k \in FetchKeys |-> Account(PROGRAM_ID, DeployedRecord(registry, KindAt(k)))]
    /\ writes = 0
    /\ result = NoResult
    /\ lendingMarket = LendingMarket_init(MARKET_PUBKEY, NoSigner)

\* Another party (the on-chain program, an account owner) creates, rewrites
\* or closes an account.  The outcome held in `result` is dropped: the model
\* observes one call per ledger state, and since a reader's outcome depends
\* on the ledger and the registry only, every (ledger, outcome) pair a longer
\* run of calls could show is still reached.
LedgerWrite ==
    /\ writes < MaxWrites
    /\ \E k \in FetchKeys :
         \E a \in WritePool(KindAt(k)) \cup {NoAccount} :
            accounts' = [accounts EXCEPT ![k] = a]
    /\ writes' = writes + 1
    /\ result' = NoResult
    /\ UNCHANGED <<registry, lendingMarket>>

GetMarketInfo ==
    /\ result = NoResult
    /\ result' = Outcome("getMarketInfo", "Market", MARKET_PUBKEY,
                         Call(registry, getMarketInfo(accounts, registry)))
    /\ UNCHANGED <<registry, accounts, writes, lendingMarket>>

GetLiquidityInfo ==
    /\ result = NoResult
    /\ \E pubkey \in FetchKeys :
         result' = Outcome("getLiquidityInfo", "Liquidity", pubkey,
                           Call(registry, getLiquidityInfo(accounts, registry, pubkey)))
    /\ UNCHANGED <<registry, accounts, writes, lendingMarket>>

GetCollateralInfo ==
    /\ result = NoResult
    /\ \E pubkey \in FetchKeys :
         result' = Outcome("getCollateralInfo", "Collateral", pubkey,
                           Call(registry, getCollateralInfo(accounts, registry, pubkey)))
    /\ UNCHANGED <<registry, accounts, writes, lendingMarket>>

GetObligationInfo ==
    /\ result = NoResult
    /\ \E pubkey \in FetchKeys :
         result' = Outcome("getObligationInfo", "Obligation", pubkey,
                           Call(registry, getObligationInfo(accounts, registry, pubkey)))
    /\ UNCHANGED <<registry, accounts, writes, lendingMarket>>

Next ==
    \/ LedgerWrite
    \/ GetMarketInfo
    \/ GetLiquidityInfo
    \/ GetCollateralInfo
    \/ GetObligationInfo

Spec == Init /\ [][Next]_vars

(***************************************************************************)
(* The decoders alone: a record is laid out from field values drawn from   *)
(* the field domains and handed to the from() of its kind, as the readers  *)
(* do once the size check has passed.                                      *)
(***************************************************************************)
\* v with its j-th byte changed.
BumpByte(v, j) == [v EXCEPT ![j] = (v[j] + 1) % 256]

\* Values of one field: the fixture's, and for a u8 the bytes around the
\* known versions and statuses, for a blob every one-byte change of the
\* fixture's value and the all-zero and all-255 values.
FieldVariants(field, base) ==
    IF field.type = "u8"
    THEN {0, 1, 2, 3, 255}
    ELSE {base} \cup {BumpByte(base, j) : j \in 1..field.span}
                \cup {[i \in 1..field.span |-> 0], [i \in 1..field.span |-> 255]}

\* The field values of a layout: the fixture restricted to the layout's
\* properties, with at most one field varied.
CodecValues(gen, kind) ==
    LET layout == LayoutOf(gen, kind)
        base   == [p \in Properties(layout) |-> FixtureValues(kind, 1, 1)[p]]
    IN  {[base EXCEPT ![layout[i].property] = v] :
            <<i, v>> \in UNION {{<<i, v>> : v \in FieldVariants(layout[i], base[layout[i].property])}
                                : i \in DOMAIN layout}}

CodecOutcome(kind, values, buffer, entity) ==
    [op |-> "from", kind |-> kind, pubkey |-> << >>, error |-> "none",
     info |-> Account(PROGRAM_ID, buffer), entity |-> entity, fields |-> values]

InitCodec ==
    /\ registry \in Generations
    /\ accounts = [k \in FetchKeys |-> NoAccount]
    /\ writes = 0
    /\ result = NoResult
    /\ lendingMarket = LendingMarket_init(MARKET_PUBKEY, NoSigner)

FromBuffer(kind) ==
    /\ result = NoResult
    /\ Declared(registry, kind)
    /\ \E values \in CodecValues(registry, kind) :
         LET buffer == encode(LayoutOf(registry, kind), values) IN
         result' = CodecOutcome(kind, values, buffer, From(kind, registry, buffer))
    /\ UNCHANGED <<registry, accounts, writes, lendingMarket>>

MarketFrom == FromBuffer("Market")

LiquidityFrom == FromBuffer("Liquidity")

CollateralFrom == FromBuffer("Collateral")

ObligationFrom == FromBuffer("Obligation")

NextCodec ==
    \/ MarketFrom
    \/ LiquidityFrom
    \/ CollateralFrom
    \/ ObligationFrom

SpecCodec == InitCodec /\ [][NextCodec]_vars

(***************************************************************************)
(* Properties of the account readers (specification Spec).                 *)
(***************************************************************************)
ReaderOps == {"getMarketInfo", "getLiquidityInfo", "getCollateralInfo", "getObligationInfo"}

\* The outcome held is that of a reader whose layout the registry declares,
\* on an account that exists.
ReadOfDeclared ==
    /\ result.op \in ReaderOps
    /\ Declared(registry, result.kind)
    /\ result.info.exists

FetchedLength == Len(result.info.data)

DeclaredSpan == span(LayoutOf(registry, result.kind))

\* C1: a reader returns an entity only when the length of the fetched data
\* equals the span of its kind's layout; on an account the program owns (the
\* accounts the size check is applied to) data one byte, or any number of
\* bytes, shorter or longer than the span fails with the reader's size error
\* and no entity is returned.
C1_SizeInvariant ==
    result.op \in ReaderOps =>
        /\ result.entity # NoEntity =>
              ReadOfDeclared /\ FetchedLength = DeclaredSpan
        /\ (ReadOfDeclared /\ result.info.owner = PROGRAM_ID
                /\ FetchedLength # DeclaredSpan) =>
              result.error = SizeError(result.kind) /\ result.entity = NoEntity

\* Data one byte longer than the Collateral span was refused for its size.
C1_Witness ==
    /\ result.op = "getCollateralInfo"
    /\ ReadOfDeclared
    /\ result.info.owner = PROGRAM_ID
    /\ FetchedLength = span(CollateralLayout(registry)) + 1
    /\ result.error = "Invalid collateral size"

\* An account of the wrong length that the program does not own.
WrongSizeWrongOwner ==
    /\ ReadOfDeclared
    /\ FetchedLength # DeclaredSpan
    /\ result.info.owner # PROGRAM_ID

\* C2 as stated: size is checked first, so an account of the wrong length
\* that the program does not own fails with the size error.
C2_SizeCheckedFirst ==
    WrongSizeWrongOwner => result.error = SizeError(result.kind)

\* C2 as amended: ownership is checked first, so an account of the wrong
\* length that the program does not own fails with the ownership error, not
\* with the size error, and no entity is returned.
C2_OwnerCheckedFirst ==
    WrongSizeWrongOwner =>
        result.error = "Invalid owner" /\ result.entity = NoEntity

\* A Liquidity read of a wrongly sized, wrongly owned account was refused
\* for its owner.
C2_Witness ==
    /\ result.op = "getLiquidityInfo"
    /\ WrongSizeWrongOwner
    /\ result.error = "Invalid owner"

\* C3: for every kind and every content of the correct span, an account whose
\* owner is not the programId fails with the ownership error and no entity is
\* returned, whatever its bytes are.
C3_OwnershipInvariant ==
    (ReadOfDeclared /\ FetchedLength = DeclaredSpan
        /\ result.info.owner # PROGRAM_ID) =>
        result.error = "Invalid owner" /\ result.entity = NoEntity

\* An Obligation of the correct span, with an unsupported version byte, owned
\* by another program, was refused for its owner.
C3_Witness ==
    /\ result.op = "getObligationInfo"
    /\ ReadOfDeclared
    /\ FetchedLength = span(ObligationLayout(registry))
    /\ result.info.data[1] = 2
    /\ result.info.owner = OTHER_PROGRAM
    /\ result.error = "Invalid owner"

\* The version the deployed records carry, as the tests expect it.
SupportedVersion == 1

\* An entity was returned by a reader.
EntityReturned == result.op \in ReaderOps /\ result.entity # NoEntity

\* C4: decoding a Liquidity or Collateral record whose status byte is outside
\* {0, 1, 2} fails with CorruptEnum; no entity with an out-of-domain status
\* is returned.
C4_StatusValidated ==
    /\ (EntityReturned /\ result.kind = "Liquidity") =>
          result.entity.status \in LiquidityStatus
    /\ (EntityReturned /\ result.kind = "Collateral") =>
          result.entity.status \in CollateralStatus
    /\ (ReadOfDeclared /\ result.kind \in {"Liquidity", "Collateral"}
            /\ result.info.owner = PROGRAM_ID /\ FetchedLength = DeclaredSpan
            /\ result.info.data[2] \notin LiquidityStatus) =>
          result.error = "CorruptEnum"

\* C5: decoding a record whose leading version byte differs from the
\* supported version fails; no entity decoded from such a buffer is returned.
C5_VersionValidated ==
    /\ EntityReturned => result.entity.version = SupportedVersion
    /\ (ReadOfDeclared /\ result.info.owner = PROGRAM_ID
            /\ FetchedLength = DeclaredSpan
            /\ result.info.data[1] # SupportedVersion) =>
          result.error # "none"

\* C8: read as a Collateral record, a 41-byte buffer fails the size check,
\* while a 74-byte buffer is of the Collateral span: it passes the size check
\* and, with status byte 3, is rejected with CorruptEnum.
C8_CollateralScenario ==
    (result.op = "getCollateralInfo" /\ ReadOfDeclared
        /\ result.info.owner = PROGRAM_ID) =>
        /\ FetchedLength = 41 => result.error = "Invalid collateral size"
        /\ FetchedLength = 74 =>
              /\ DeclaredSpan = 74
              /\ result.error # "Invalid collateral size"
              /\ result.info.data[2] = 3 => result.error = "CorruptEnum"

(***************************************************************************)
(* Properties of the layouts and decoders (specification SpecCodec).       *)
(***************************************************************************)
Decoded == result.op = "from"

\* v is what a field of the given type holds when it is read at byte offset
\* off (counted from 0) of data: a u8 the byte itself, an address the 32
\* bytes, a u64 the number whose digit of weight 256^k is byte off + k.
ReadsAt(v, data, off, type) ==
    CASE type = "u8"      -> v = data[off + 1]
      [] type = "address" -> Len(v) = 32 /\ \A j \in 1..32 : v[j] = data[off + j]
      [] type = "u64"     -> \A k \in 0..7 : Digit(v, k) = data[off + 1 + k]

\* The decoded fields of each entity with the sum of the widths of the
\* fields that precede them (u8 1, address 32, u64 8).
FieldOffsets(kind) ==
    CASE kind = "Market" ->
            { <<"version", 0, "u8">>, <<"owner", 1, "address">>,
              <<"liquidityTokens", 33, "u64">>, <<"collateralTokens", 41, "u64">> }
      [] kind = "Liquidity" ->
            { <<"version", 0, "u8">>, <<"status", 1, "u8">>,
              <<"market", 2, "address">>, <<"tokenMint", 34, "address">>,
              <<"tokenAccount", 66, "address">>, <<"poolMint", 98, "address">> }
      [] kind = "Collateral" ->
            { <<"version", 0, "u8">>, <<"status", 1, "u8">>,
              <<"market", 2, "address">>, <<"tokenMint", 34, "address">>,
              <<"tokenAccount", 66, "address">>,
              <<"ratioInitial", 98, "u64">>, <<"ratioHealthy", 106, "u64">> }
      [] kind = "Obligation" ->
            { <<"version", 0, "u8">>, <<"market", 1, "address">>,
              <<"owner", 33, "address">>, <<"liquidity", 65, "address">>,
              <<"collateral", 97, "address">>,
              <<"amountLiquidityBorrowed", 129, "u64">>,
              <<"amountCollateralDeposited", 137, "u64">> }

\* C6: every decoded field is read from the byte offset equal to the sum of
\* the widths of the fields preceding it in the layout, without padding: a
\* u8 as one byte, an 8-byte field as an unsigned little-endian 64-bit
\* integer, a 32-byte field as an address.
C6_FieldOffsets ==
    Decoded =>
        /\ DOMAIN result.entity = {row[1] : row \in FieldOffsets(result.kind)}
        /\ \A row \in FieldOffsets(result.kind) :
              ReadsAt(result.entity[row[1]], result.info.data, row[2], row[3])

\* An Obligation was decoded whose last amount has distinct lowest and
\* highest bytes, read from offsets 137 and 144.
C6_Witness ==
    /\ Decoded
    /\ result.kind = "Obligation"
    /\ result.info.data[138] # result.info.data[145]
    /\ Digit(result.entity.amountCollateralDeposited, 0) = result.info.data[138]
    /\ Digit(result.entity.amountCollateralDeposited, 7) = result.info.data[145]
    /\ result.entity.collateral = SubSeq(result.info.data, 98, 129)

\* The span of each layout according to the byte-layout table.
TableSpan(gen, kind) ==
    CASE kind = "Market"     -> 49
      [] kind = "Obligation" -> 145
      [] kind = "Collateral" -> IF gen = "GenC" THEN 146 ELSE 114
      [] kind = "Liquidity"  ->
            CASE gen = "GenA" -> 130
              [] gen = "GenB" -> 138
              [] gen = "GenC" -> 170

\* The fields of each record in the order of the data-model table.
TableOrder(kind) ==
    CASE kind = "Market" ->
            <<"version", "owner", "liquidityTokens", "collateralTokens">>
      [] kind = "Liquidity" ->
            <<"version", "status", "market", "tokenMint", "tokenAccount",
              "poolMint", "amountBorrowed", "oracle">>
      [] kind = "Collateral" ->
            <<"version", "status", "market", "tokenMint", "tokenAccount",
              "ratioInitial", "ratioHealthy", "oracle">>
      [] kind = "Obligation" ->
            <<"version", "market", "owner", "liquidity", "collateral",
              "amountLiquidityBorrowed", "amountCollateralDeposited">>

\* s is t with some of its elements left out.
RECURSIVE IsSubsequence(_, _)
IsSubsequence(s, t) ==
    IF s = << >> THEN TRUE
    ELSE IF t = << >> THEN FALSE
    ELSE IF Head(s) = Head(t) THEN IsSubsequence(Tail(s), Tail(t))
    ELSE IsSubsequence(s, Tail(t))

\* C7: the span of each record layout of the registry in use is the sum of
\* the field widths of the byte-layout table (Market 49, Obligation 145,
\* Collateral 114 or 146 with oracle, Liquidity 130, 138 with amountBorrowed,
\* 170 with amountBorrowed and oracle), and its fields are in the order of
\* the data-model table.
C7_Spans ==
    \A kind \in Exports(registry) :
        /\ Declared(registry, kind)
        /\ span(LayoutOf(registry, kind)) = TableSpan(registry, kind)
        /\ IsSubsequence([i \in DOMAIN LayoutOf(registry, kind) |->
                             FieldName(LayoutOf(registry, kind)[i].property)],
                         TableOrder(kind))

\* v is the typed value of a field laid out as `bytes`.
Recovers(v, bytes, field) ==
    CASE field.type = "u8" -> v = bytes
      [] field.span = 32   -> v = bytes
      [] field.span = 8    -> \A k \in 0..7 : Digit(v, k) = bytes[k + 1]

\* C9: for every record kind and every tuple of field values, laying the
\* fields out in layout order and decoding the buffer recovers every field
\* value; and two buffers of the span that differ in a byte decode to
\* entities that differ.
C9_RoundTrip ==
    Decoded =>
        LET layout == LayoutOf(registry, result.kind) IN
        /\ \A i \in DOMAIN layout :
              /\ FieldName(layout[i].property) \in DOMAIN result.entity
              /\ Recovers(result.entity[FieldName(layout[i].property)],
                          result.fields[layout[i].property], layout[i])
        /\ \A values \in CodecValues(registry, result.kind) :
              encode(layout, values) # result.info.data =>
                  From(result.kind, registry, encode(layout, values)) # result.entity

\* C10: the decoder and the registry agree on the field set: every field the
\* layout declares (amount_borrowed and oracle included) is present in the
\* entity its from() returns, and every layout a decoder uses is declared by
\* the registry.
C10_FieldSetsAgree ==
    Decoded =>
        /\ {FieldName(p) : p \in Properties(LayoutOf(registry, result.kind))}
              \subseteq DOMAIN result.entity
        /\ Declared(registry, "Obligation")

(***************************************************************************)
(* layout.ts: the command registry MarketInsructionLayouts of the three    *)
(* generations.                                                            *)
(***************************************************************************)
InstructionLayout == u8("instruction")

MarketInsructionLayouts(gen) ==
    CASE gen = "GenA" ->
            [ CreateObligation |-> [index |-> 1, layout |-> <<InstructionLayout>>] ]
      [] gen = "GenB" ->
            [ LiquidityDeposit  |-> [index |-> 5, layout |-> <<InstructionLayout, uint64("amount")>>],
              LiquidityWithdraw |-> [index |-> 6, layout |-> <<InstructionLayout, uint64("amount")>>],
              CreateObligation  |-> [index |-> 7, layout |-> <<InstructionLayout>>] ]
      [] gen = "GenC" ->
            [ LiquidityDeposit             |-> [index |-> 5,  layout |-> <<InstructionLayout, uint64("amount")>>],
              LiquidityWithdraw            |-> [index |-> 6,  layout |-> <<InstructionLayout, uint64("amount")>>],
              CreateObligation             |-> [index |-> 7,  layout |-> <<InstructionLayout>>],
              ObligationCollateralDeposit  |-> [index |-> 8,  layout |-> <<InstructionLayout, uint64("amount")>>],
              ObligationCollateralWithdraw |-> [index |-> 9,  layout |-> <<InstructionLayout, uint64("amount")>>],
              ObligationLiquidityBorrow    |-> [index |-> 10, layout |-> <<InstructionLayout, uint64("amount")>>],
              ObligationLiquidityRepay     |-> [index |-> 11, layout |-> <<InstructionLayout, uint64("amount")>>],
              LiquidateObligation          |-> [index |-> 12, layout |-> <<InstructionLayout>>] ]

\* The command kinds a registry has an entry for.
Commands(gen) == DOMAIN MarketInsructionLayouts(gen)

\* Entry keeping only the two low bits of the index.
Entry_lowBits(gen, command) ==
    IF command \in Commands(gen)
    THEN [defined |-> TRUE,
          index   |-> MarketInsructionLayouts(gen)[command].index % 4,
          layout  |-> MarketInsructionLayouts(gen)[command].layout]
    ELSE [defined |-> FALSE, index |-> 0, layout |-> << >>]

\* MarketInsructionLayouts.<command>: the entry, or undefined when the
\* registry has none.
Entry(gen, command) ==
    IF command \in Commands(gen)
    THEN [defined |-> TRUE,
          index   |-> MarketInsructionLayouts(gen)[command].index,
          layout  |-> MarketInsructionLayouts(gen)[command].layout]
    ELSE [defined |-> FALSE, index |-> 0, layout |-> << >>]

(***************************************************************************)
(* Amounts.  A BN is its sign and its magnitude, the base-256 digits most  *)
(* significant first without leading zeros (one zero digit for 0).         *)
(***************************************************************************)
BN(negative, magnitude) == [negative |-> negative, magnitude |-> magnitude]

RECURSIVE ToDigits(_)
\* The base-256 digits of a natural number, most significant first.
ToDigits(n) == IF n < 256 THEN <<n>> ELSE Append(ToDigits(n \div 256), n % 256)

\* new u64(number): BN keeps the sign apart from the magnitude.
new_u64(number) ==
    IF number < 0 THEN BN(TRUE, ToDigits(0 - number)) ELSE BN(FALSE, ToDigits(number))

Reverse(s) == [i \in 1..Len(s) |-> s[Len(s) + 1 - i]]

\* u64.toBuffer() writing the digits most significant first.
u64_toBuffer_bigEndian(amount) ==
    LET b == amount.magnitude IN
    IF Len(b) = 8 THEN [error |-> "none", buffer |-> b]
    ELSE IF Len(b) > 8 THEN [error |-> "u64 too large", buffer |-> << >>]
    ELSE [error |-> "none", buffer |-> Zeros(8 - Len(b)) \o b]

\* u64.toBuffer(): super.toArray().reverse(), which are the digits of the
\* magnitude least significant first, whatever the sign; returned as it is
\* when 8 bytes long, refused by assert(b.length < 8, 'u64 too large') when
\* longer, copied into a zeroed 8-byte buffer when shorter.
u64_toBuffer(amount) ==
    LET b == Reverse(amount.magnitude) IN
    IF Len(b) = 8 THEN [error |-> "none", buffer |-> b]
    ELSE IF Len(b) > 8 THEN [error |-> "u64 too large", buffer |-> << >>]
    ELSE [error |-> "none", buffer |-> b \o Zeros(8 - Len(b))]

(***************************************************************************)
(* utils.ts: encodeData.                                                   *)
(***************************************************************************)
\* Structure.encode writes the fields of src the layout names and leaves the
\* bytes of a field src does not have as Buffer.alloc zeroed them.
Filled(layout, src) ==
    [p \in Properties(layout) |->
        IF p \in DOMAIN src THEN src[p]
        ELSE IF layout[IndexOf(layout, p)].type = "u8" THEN 0
        ELSE Zeros(layout[IndexOf(layout, p)].span)]

\* encodeData treating a missing registry entry as an empty layout.
encodeData_emptyWhenMissing(type, fields) ==
    [error     |-> "none",
     allocated |-> TRUE,
     data      |-> encode(type.layout,
                          Filled(type.layout, fields @@ [instruction |-> type.index]))]

\* encodeData(type, fields): reading type.layout of an undefined type throws a
\* TypeError before Buffer.alloc is called; otherwise a buffer of
\* type.layout.span bytes is allocated and { instruction: type.index,
\* ...fields } is encoded into it.
encodeData(type, fields) ==
    IF ~type.defined
    THEN [error |-> TypeError, allocated |-> FALSE, data |-> << >>]
    ELSE [error     |-> "none",
          allocated |-> TRUE,
          data      |-> encode(type.layout,
                               Filled(type.layout, fields @@ [instruction |-> type.index]))]

(***************************************************************************)
(* instruction.ts: the instruction encoders.  An encoder returns the       *)
(* TransactionInstruction it built or the error it threw; `allocated`      *)
(* tells whether encodeData had allocated its buffer by then.              *)
(***************************************************************************)
TOKEN_PROGRAM_ID == Key(12)

SYSVAR_RENT_PUBKEY == Key(13)

\* SystemProgram.programId, the all-zero address.
SystemProgram_programId == Zeros(32)

NoInstruction == [none |-> TRUE]

\* An account reference that is always flagged writable.
Meta_alwaysWritable(pubkey, isSigner, isWritable) ==
    [pubkey |-> pubkey, isSigner |-> isSigner, isWritable |-> TRUE]

\* An account reference that is never flagged signer.
Meta_neverSigner(pubkey, isSigner, isWritable) ==
    [pubkey |-> pubkey, isSigner |-> FALSE, isWritable |-> isWritable]

Meta(pubkey, isSigner, isWritable) ==
    [pubkey |-> pubkey, isSigner |-> isSigner, isWritable |-> isWritable]

TransactionInstruction(keys, programId, data) ==
    [keys |-> keys, programId |-> programId, data |-> data]

Failed(error, allocated) ==
    [error |-> error, allocated |-> allocated, instruction |-> NoInstruction]

Built(instruction) ==
    [error |-> "none", allocated |-> TRUE, instruction |-> instruction]

liquidityDeposit(gen, p) ==
    LET amount == u64_toBuffer(p.amount)
        data   == encodeData(Entry(gen, "LiquidityDeposit"), [amount |-> amount.buffer])
    IN  IF amount.error # "none" THEN Failed(amount.error, FALSE)
        ELSE IF data.error # "none" THEN Failed(data.error, data.allocated)
        ELSE Built(TransactionInstruction(
            << Meta(p.liquidity, FALSE, FALSE),
               Meta(p.source, FALSE, TRUE),
               Meta(p.destination, FALSE, TRUE),
               Meta(p.tokenAccount, FALSE, TRUE),
               Meta(p.poolMint, FALSE, TRUE),
               Meta(p.market, FALSE, FALSE),
               Meta(p.marketAuthority, FALSE, FALSE),
               Meta(p.userTransferAuthority, TRUE, FALSE),
               Meta(TOKEN_PROGRAM_ID, FALSE, FALSE) >>,
            PublicKey(p.programId),
            data.data))

liquidityWithdraw(gen, p) ==
    LET amount == u64_toBuffer(p.amount)
        data   == encodeData(Entry(gen, "LiquidityWithdraw"), [amount |-> amount.buffer])
    IN  IF amount.error # "none" THEN Failed(amount.error, FALSE)
        ELSE IF data.error # "none" THEN Failed(data.error, data.allocated)
        ELSE Built(TransactionInstruction(
            << Meta(p.liquidity, FALSE, FALSE),
               Meta(p.source, FALSE, TRUE),
               Meta(p.destination, FALSE, TRUE),
               Meta(p.tokenAccount, FALSE, TRUE),
               Meta(p.poolMint, FALSE, TRUE),
               Meta(p.market, FALSE, FALSE),
               Meta(p.marketAuthority, FALSE, FALSE),
               Meta(p.userTransferAuthority, TRUE, FALSE),
               Meta(TOKEN_PROGRAM_ID, FALSE, FALSE) >>,
            PublicKey(p.programId),
            data.data))

\* createObligation with the liquidity and collateral references exchanged.
createObligation_swapped(gen, p) ==
    LET data == encodeData(Entry(gen, "CreateObligation"), << >>)
    IN  IF data.error # "none" THEN Failed(data.error, data.allocated)
        ELSE Built(TransactionInstruction(
            << Meta(p.obligation, FALSE, TRUE),
               Meta(p.collateral, FALSE, FALSE),
               Meta(p.liquidity, FALSE, FALSE),
               Meta(p.market, FALSE, FALSE),
               Meta(p.obligationAuthority, FALSE, FALSE),
               Meta(p.owner, TRUE, FALSE),
               Meta(SYSVAR_RENT_PUBKEY, FALSE, FALSE),
               Meta(SystemProgram_programId, FALSE, FALSE) >>,
            PublicKey(p.programId),
            data.data))

createObligation(gen, p) ==
    LET data == encodeData(Entry(gen, "CreateObligation"), << >>)
    IN  IF data.error # "none" THEN Failed(data.error, data.allocated)
        ELSE Built(TransactionInstruction(
            << Meta(p.obligation, FALSE, TRUE),
               Meta(p.liquidity, FALSE, FALSE),
               Meta(p.collateral, FALSE, FALSE),
               Meta(p.market, FALSE, FALSE),
               Meta(p.obligationAuthority, FALSE, FALSE),
               Meta(p.owner, TRUE, FALSE),
               Meta(SYSVAR_RENT_PUBKEY, FALSE, FALSE),
               Meta(SystemProgram_programId, FALSE, FALSE) >>,
            PublicKey(p.programId),
            data.data))

obligationCollateralDeposit(gen, p) ==
    LET amount == u64_toBuffer(p.amount)
        data   == encodeData(Entry(gen, "ObligationCollateralDeposit"), [amount |-> amount.buffer])
    IN  IF amount.error # "none" THEN Failed(amount.error, FALSE)
        ELSE IF data.error # "none" THEN Failed(data.error, data.allocated)
        ELSE Built(TransactionInstruction(
            << Meta(p.obligation, FALSE, TRUE),
               Meta(p.collateral, FALSE, FALSE),
               Meta(p.source, FALSE, TRUE),
               Meta(p.collateralTokenAccount, FALSE, TRUE),
               Meta(p.market, FALSE, FALSE),
               Meta(p.userTransferAuthority, TRUE, FALSE),
               Meta(TOKEN_PROGRAM_ID, FALSE, FALSE) >>,
            PublicKey(p.programId),
            data.data))

obligationCollateralWithdraw(gen, p) ==
    LET amount == u64_toBuffer(p.amount)
        data   == encodeData(Entry(gen, "ObligationCollateralWithdraw"), [amount |-> amount.buffer])
    IN  IF amount.error # "none" THEN Failed(amount.error, FALSE)
        ELSE IF data.error # "none" THEN Failed(data.error, data.allocated)
        ELSE Built(TransactionInstruction(
            << Meta(p.obligation, FALSE, TRUE),
               Meta(p.collateral, FALSE, FALSE),
               Meta(p.destination, FALSE, TRUE),
               Meta(p.collateralTokenAccount, FALSE, TRUE),
               Meta(p.market, FALSE, FALSE),
               Meta(p.obligationOwner, TRUE, FALSE),
               Meta(p.marketAuthority, FALSE, FALSE),
               Meta(TOKEN_PROGRAM_ID, FALSE, FALSE) >>,
            PublicKey(p.programId),
            data.data))

obligationLiquidityBorrow(gen, p) ==
    LET amount == u64_toBuffer(p.amount)
        data   == encodeData(Entry(gen, "ObligationLiquidityBorrow"), [amount |-> amount.buffer])
    IN  IF amount.error # "none" THEN Failed(amount.error, FALSE)
        ELSE IF data.error # "none" THEN Failed(data.error, data.allocated)
        ELSE Built(TransactionInstruction(
            << Meta(p.obligation, FALSE, TRUE),
               Meta(p.liquidity, FALSE, TRUE),
               Meta(p.collateral, FALSE, FALSE),
               Meta(p.destination, FALSE, TRUE),
               Meta(p.liquidityTokenAccount, FALSE, TRUE),
               Meta(p.market, FALSE, FALSE),
               Meta(p.obligationOwner, TRUE, FALSE),
               Meta(p.marketAuthority, FALSE, FALSE),
               Meta(TOKEN_PROGRAM_ID, FALSE, FALSE) >>,
            PublicKey(p.programId),
            data.data))

obligationLiquidityRepay(gen, p) ==
    LET amount == u64_toBuffer(p.amount)
        data   == encodeData(Entry(gen, "ObligationLiquidityRepay"), [amount |-> amount.buffer])
    IN  IF amount.error # "none" THEN Failed(amount.error, FALSE)
        ELSE IF data.error # "none" THEN Failed(data.error, data.allocated)
        ELSE Built(TransactionInstruction(
            << Meta(p.obligation, FALSE, TRUE),
               Meta(p.liquidity, FALSE, TRUE),
               Meta(p.source, FALSE, TRUE),
               Meta(p.liquidityTokenAccount, FALSE, TRUE),
               Meta(p.market, FALSE, FALSE),
               Meta(p.userTransferAuthority, TRUE, FALSE),
               Meta(TOKEN_PROGRAM_ID, FALSE, FALSE) >>,
            PublicKey(p.programId),
            data.data))

(***************************************************************************)
(* The encoders alone: each is called with a parameter object of its type, *)
(* the addresses and the amount drawn from the sets below.                 *)
(***************************************************************************)
\* The fields of the parameter types of instruction.ts.
LiquidityDepositParams ==
    { "programId", "market", "liquidity", "source", "destination",
      "tokenAccount", "poolMint", "marketAuthority",
      "userTransferAuthority", "amount" }

LiquidityWithdrawParams ==
    { "programId", "market", "liquidity", "source", "destination",
      "tokenAccount", "poolMint", "marketAuthority",
      "userTransferAuthority", "amount" }

CreateObligationParams ==
    { "programId", "market", "obligation", "liquidity", "collateral",
      "obligationAuthority", "owner" }

ObligationCollateralDepositParams ==
    { "programId", "market", "obligation", "collateral", "source",
      "collateralTokenAccount", "userTransferAuthority", "amount" }

ObligationCollateralWithdrawParams ==
    { "programId", "market", "obligation", "collateral", "destination",
      "collateralTokenAccount", "obligationOwner", "marketAuthority",
      "amount" }

ObligationLiquidityBorrowParams ==
    { "programId", "market", "obligation", "liquidity", "collateral",
      "destination", "liquidityTokenAccount", "obligationOwner",
      "marketAuthority", "amount" }

ObligationLiquidityRepayParams ==
    { "programId", "market", "obligation", "liquidity", "source",
      "liquidityTokenAccount", "userTransferAuthority", "amount" }

\* The address parameters of the encoders.
AddressRoles ==
    << "market", "liquidity", "collateral", "obligation", "source",
       "destination", "tokenAccount", "poolMint", "marketAuthority",
       "userTransferAuthority", "obligationAuthority", "owner",
       "collateralTokenAccount", "liquidityTokenAccount", "obligationOwner" >>

RoleIndex(role) == CHOOSE i \in DOMAIN AddressRoles : AddressRoles[i] = role

\* Two ways of giving the parameters addresses: fifteen distinct addresses
\* in the order of AddressRoles, and the same addresses rotated by `shift`
\* roles, so that every role gets a different address in the two.
Shifts == {0, 6}

AddressOf(role, shift) ==
    Key(15 + ((RoleIndex(role) - 1 + shift) % Len(AddressRoles)))

\* The amounts: 0, 1, 5,000,000, a number of eight distinct digits, 2^64 - 1,
\* 2^64, -5 and -(2^64).
Amounts ==
    { new_u64(0), new_u64(1), new_u64(5000000),
      BN(FALSE, <<1, 2, 3, 4, 5, 6, 7, 8>>),
      BN(FALSE, <<255, 255, 255, 255, 255, 255, 255, 255>>),
      BN(FALSE, <<1, 0, 0, 0, 0, 0, 0, 0, 0>>),
      new_u64(0 - 5),
      BN(TRUE, <<1, 0, 0, 0, 0, 0, 0, 0, 0>>) }

\* A parameter object with the given fields.
Params(fields, shift, amount) ==
    [f \in fields |->
        CASE f = "programId" -> PROGRAM_ID
          [] f = "amount"    -> amount
          [] OTHER           -> AddressOf(f, shift)]

\* instruction.ts imports './layout': when evaluating that module throws,
\* no encoder can be called.
CallEncoder(gen, r) == IF ModuleLoads(gen) THEN r ELSE Failed(TypeError, FALSE)

EncoderOutcome(op, command, p, r) ==
    [op |-> op, kind |-> command, pubkey |-> << >>, error |-> r.error,
     info |-> NoAccount, entity |-> NoEntity,
     params |-> p, allocated |-> r.allocated, instruction |-> r.instruction]

InitEncoder ==
    /\ registry \in Generations
    /\ accounts = [k \in FetchKeys |-> NoAccount]
    /\ writes = 0
    /\ result = NoResult
    /\ lendingMarket = LendingMarket_init(MARKET_PUBKEY, NoSigner)

EncodeLiquidityDeposit ==
    /\ result = NoResult
    /\ \E shift \in Shifts, amount \in Amounts :
         LET p == Params(LiquidityDepositParams, shift, amount) IN
         result' = EncoderOutcome("liquidityDeposit", "LiquidityDeposit", p,
                                  CallEncoder(registry, liquidityDeposit(registry, p)))
    /\ UNCHANGED <<registry, accounts, writes, lendingMarket>>

EncodeLiquidityWithdraw ==
    /\ result = NoResult
    /\ \E shift \in Shifts, amount \in Amounts :
         LET p == Params(LiquidityWithdrawParams, shift, amount) IN
         result' = EncoderOutcome("liquidityWithdraw", "LiquidityWithdraw", p,
                                  CallEncoder(registry, liquidityWithdraw(registry, p)))
    /\ UNCHANGED <<registry, accounts, writes, lendingMarket>>

EncodeCreateObligation ==
    /\ result = NoResult
    /\ \E shift \in Shifts :
         LET p == Params(CreateObligationParams, shift, new_u64(0)) IN
         result' = EncoderOutcome("createObligation", "CreateObligation", p,
                                  CallEncoder(registry, createObligation(registry, p)))
    /\ UNCHANGED <<registry, accounts, writes, lendingMarket>>

EncodeObligationCollateralDeposit ==
    /\ result = NoResult
    /\ \E shift \in Shifts, amount \in Amounts :
         LET p == Params(ObligationCollateralDepositParams, shift, amount) IN
         result' = EncoderOutcome("obligationCollateralDeposit", "ObligationCollateralDeposit", p,
                                  CallEncoder(registry, obligationCollateralDeposit(registry, p)))
    /\ UNCHANGED <<registry, accounts, writes, lendingMarket>>

EncodeObligationCollateralWithdraw ==
    /\ result = NoResult
    /\ \E shift \in Shifts, amount \in Amounts :
         LET p == Params(ObligationCollateralWithdrawParams, shift, amount) IN
         result' = EncoderOutcome("obligationCollateralWithdraw", "ObligationCollateralWithdraw", p,
                                  CallEncoder(registry, obligationCollateralWithdraw(registry, p)))
    /\ UNCHANGED <<registry, accounts, writes, lendingMarket>>

EncodeObligationLiquidityBorrow ==
    /\ result = NoResult
    /\ \E shift \in Shifts, amount \in Amounts :
         LET p == Params(ObligationLiquidityBorrowParams, shift, amount) IN
         result' = EncoderOutcome("obligationLiquidityBorrow", "ObligationLiquidityBorrow", p,
                                  CallEncoder(registry, obligationLiquidityBorrow(registry, p)))
    /\ UNCHANGED <<registry, accounts, writes, lendingMarket>>

EncodeObligationLiquidityRepay ==
    /\ result = NoResult
    /\ \E shift \in Shifts, amount \in Amounts :
         LET p == Params(ObligationLiquidityRepayParams, shift, amount) IN
         result' = EncoderOutcome("obligationLiquidityRepay", "ObligationLiquidityRepay", p,
                                  CallEncoder(registry, obligationLiquidityRepay(registry, p)))
    /\ UNCHANGED <<registry, accounts, writes, lendingMarket>>

NextEncoder ==
    \/ EncodeLiquidityDeposit
    \/ EncodeLiquidityWithdraw
    \/ EncodeCreateObligation
    \/ EncodeObligationCollateralDeposit
    \/ EncodeObligationCollateralWithdraw
    \/ EncodeObligationLiquidityBorrow
    \/ EncodeObligationLiquidityRepay

SpecEncoder == InitEncoder /\ [][NextEncoder]_vars

(***************************************************************************)
(* Properties of the command registry and the encoders (specification      *)
(* SpecEncoder).                                                           *)
(***************************************************************************)
EncoderOps ==
    { "liquidityDeposit", "liquidityWithdraw", "createObligation",
      "obligationCollateralDeposit", "obligationCollateralWithdraw",
      "obligationLiquidityBorrow", "obligationLiquidityRepay" }

\* An encoder was called and returned an instruction.
Encoded == result.op \in EncoderOps /\ result.instruction # NoInstruction

\* An encoder that takes an amount was called.
AmountGiven == result.op \in EncoderOps /\ "amount" \in DOMAIN result.params

\* The amount is an unsigned 64-bit number.
InRange(amount) == ~amount.negative /\ Len(amount.magnitude) <= 8

\* The digit of weight 256^k of the magnitude of an amount.
AmountDigit(amount, k) ==
    IF k < Len(amount.magnitude)
    THEN amount.magnitude[Len(amount.magnitude) - k]
    ELSE 0

\* The payload of 5,000,000 (0x4C4B40) deposited.
GoldenDeposit == <<5, 64, 75, 76, 0, 0, 0, 0, 0>>

\* C11: the payload of every command has the length of the span of the
\* command's layout, the command's opcode as byte 0 and the fields after it
\* in layout order: 9 bytes for a command with an amount, the amount (an
\* unsigned 64-bit number) in bytes 1..8 least significant byte first and
\* unchanged, 1 byte for CreateObligation; LiquidityDeposit of 5,000,000 is
\* [5, 0x40, 0x4B, 0x4C, 0, 0, 0, 0, 0].
C11_Payload ==
    Encoded =>
        LET data  == result.instruction.data
            entry == MarketInsructionLayouts(registry)[result.kind]
        IN  /\ Len(data) = span(entry.layout)
            /\ data[1] = entry.index
            /\ result.kind = "CreateObligation" => Len(data) = 1
            /\ result.kind # "CreateObligation" => Len(data) = 9
            /\ (AmountGiven /\ InRange(result.params.amount)) =>
                  \A k \in 0..7 : data[2 + k] = AmountDigit(result.params.amount, k)
            /\ (result.op = "liquidityDeposit"
                    /\ result.params.amount = BN(FALSE, <<76, 75, 64>>)) =>
                  data = GoldenDeposit

\* 5,000,000 was deposited and the golden payload came out.
C11_Witness ==
    /\ Encoded
    /\ result.op = "liquidityDeposit"
    /\ result.params.amount = new_u64(5000000)
    /\ result.instruction.data = GoldenDeposit

\* The account references of each encoder, by parameter name, in order.
AccountOrder(op) ==
    CASE op \in {"liquidityDeposit", "liquidityWithdraw"} ->
            << "liquidity", "source", "destination", "tokenAccount", "poolMint",
               "market", "marketAuthority", "userTransferAuthority", "tokenProgram" >>
      [] op = "createObligation" ->
            << "obligation", "liquidity", "collateral", "market",
               "obligationAuthority", "owner", "rentSysvar", "systemProgram" >>
      [] op = "obligationCollateralDeposit" ->
            << "obligation", "collateral", "source", "collateralTokenAccount",
               "market", "userTransferAuthority", "tokenProgram" >>
      [] op = "obligationCollateralWithdraw" ->
            << "obligation", "collateral", "destination", "collateralTokenAccount",
               "market", "obligationOwner", "marketAuthority", "tokenProgram" >>
      [] op = "obligationLiquidityBorrow" ->
            << "obligation", "liquidity", "collateral", "destination",
               "liquidityTokenAccount", "market", "obligationOwner",
               "marketAuthority", "tokenProgram" >>
      [] op = "obligationLiquidityRepay" ->
            << "obligation", "liquidity", "source", "liquidityTokenAccount",
               "market", "userTransferAuthority", "tokenProgram" >>

\* The number of account references of each encoder.
AccountCount(op) ==
    CASE op \in {"liquidityDeposit", "liquidityWithdraw"} -> 9
      [] op = "createObligation"                          -> 8
      [] op = "obligationCollateralDeposit"               -> 7
      [] op = "obligationCollateralWithdraw"              -> 8
      [] op = "obligationLiquidityBorrow"                 -> 9
      [] op = "obligationLiquidityRepay"                  -> 7

\* The address a reference name stands for under a parameter object.
Referenced(name, p) ==
    CASE name = "tokenProgram"  -> TOKEN_PROGRAM_ID
      [] name = "rentSysvar"    -> SYSVAR_RENT_PUBKEY
      [] name = "systemProgram" -> SystemProgram_programId
      [] OTHER                  -> p[name]

\* C12: the account-reference list of each encoder has a fixed length and a
\* fixed positional order that depend on the command kind only: whatever the
\* addresses and the amount, position i holds the address of the i-th name
\* of the encoder's row.
C12_AccountOrder ==
    Encoded =>
        LET keys == result.instruction.keys IN
        /\ Len(keys) = AccountCount(result.op)
        /\ Len(AccountOrder(result.op)) = AccountCount(result.op)
        /\ \A i \in 1..Len(keys) :
              keys[i].pubkey = Referenced(AccountOrder(result.op)[i], result.params)

\* A borrow was encoded from the rotated addresses: nine references, the
\* second the liquidity, the third the collateral.
C12_Witness ==
    /\ Encoded
    /\ result.op = "obligationLiquidityBorrow"
    /\ result.params.market = AddressOf("market", 6)
    /\ Len(result.instruction.keys) = 9
    /\ result.instruction.keys[2].pubkey = AddressOf("liquidity", 6)
    /\ result.instruction.keys[3].pubkey = AddressOf("collateral", 6)

\* C15: within the registry in use no two command kinds share an opcode, and
\* every opcode fits in one byte.
C15_OpcodesDistinct ==
    \A a \in Commands(registry) :
        /\ Entry(registry, a).index \in 0..255
        /\ \A b \in Commands(registry) :
              a # b => Entry(registry, a).index # Entry(registry, b).index

\* Under the registry of eight commands a repay was encoded with opcode 11.
C15_Witness ==
    /\ Encoded
    /\ Cardinality(Commands(registry)) = 8
    /\ result.op = "obligationLiquidityRepay"
    /\ result.instruction.data[1] = 11

\* C16: a command kind that the registry in use shares with another registry
\* of the repository has the same opcode in both.
C16_NeverRenumbered ==
    \A gen \in Generations :
        \A c \in Commands(registry) \cap Commands(gen) :
            Entry(registry, c).index = Entry(gen, c).index

\* An encoder was called for a command the registry in use has no entry for.
UnknownKind ==
    /\ result.op \in EncoderOps
    /\ ModuleLoads(registry)
    /\ result.kind \notin Commands(registry)

C18_AmountRange ==
    AmountGiven =>
        /\ ~InRange(result.params.amount) =>
              result.error # "none" /\ result.instruction = NoInstruction
        /\ Encoded =>
              /\ ~result.params.amount.negative
              /\ \A k \in 0..7 :
                    result.instruction.data[2 + k] = AmountDigit(result.params.amount, k)

(***************************************************************************)
(* Address derivation (PublicKey.createWithSeed and findProgramAddress of  *)
(* @solana/web3.js, as index.ts calls them).  Seeds are the UTF-8 bytes of *)
(* the seed strings.  SHA-256 is modelled by a function of every byte of   *)
(* its input and of the input's length that yields 32 bytes.               *)
(***************************************************************************)
RECURSIVE Sum(_, _, _)
\* The sum of bytes lo..hi.
Sum(bytes, lo, hi) ==
    IF lo > hi THEN 0
    ELSE IF lo = hi THEN bytes[lo]
    ELSE Sum(bytes, lo, (lo + hi) \div 2) + Sum(bytes, (lo + hi) \div 2 + 1, hi)

RECURSIVE WeightedSum(_, _, _)
\* The sum of bytes lo..hi, each weighted by its position.
WeightedSum(bytes, lo, hi) ==
    IF lo > hi THEN 0
    ELSE IF lo = hi THEN lo * bytes[lo]
    ELSE (WeightedSum(bytes, lo, (lo + hi) \div 2)
            + WeightedSum(bytes, (lo + hi) \div 2 + 1, hi)) % 65536

RECURSIVE PolyHash(_, _, _, _, _)
\* The polynomial of base m modulo q of bytes[lo..hi], with the power of m
\* of its length: it tells apart inputs that differ in a byte, in the order
\* of their bytes or in their length.
PolyHash(bytes, lo, hi, m, q) ==
    IF lo > hi THEN [h |-> 0, w |-> 1]
    ELSE IF lo = hi THEN [h |-> (bytes[lo] + 1) % q, w |-> m % q]
    ELSE LET mid   == (lo + hi) \div 2
             left  == PolyHash(bytes, lo, mid, m, q)
             right == PolyHash(bytes, mid + 1, hi, m, q)
         IN  [h |-> (left.h * right.w + right.h) % q, w |-> (left.w * right.w) % q]

\* The digest: its first two bytes mix the sums of the input, the next four
\* hold two polynomials of it, the others mix all of these.
sha256(bytes) ==
    LET a == Sum(bytes, 1, Len(bytes))
        b == WeightedSum(bytes, 1, Len(bytes))
        c == PolyHash(bytes, 1, Len(bytes), 31, 32749).h
        d == PolyHash(bytes, 1, Len(bytes), 37, 32719).h
        mix(i) == (a * (2 * i + 1) + b * (i * i + 1) + Len(bytes) * i) % 256
    IN  [i \in 1..32 |->
            CASE i \in {1, 2} -> mix(i)
              [] i = 3 -> c % 256
              [] i = 4 -> c \div 256
              [] i = 5 -> d % 256
              [] i = 6 -> d \div 256
              [] OTHER -> (mix(i) + c * i + d) % 256]

\* Whether 32 bytes are a point of the ed25519 curve (about half of all
\* digests are), as a fixed property of the bytes: one under which a search
\* over the bumps stops at its first, at a later one or at none.
is_on_curve(bytes) == bytes[1] % 2 = 0 \/ bytes[2] % 8 = 0

\* The UTF-8 bytes of "liquidity", "collateral", "obligation" and
\* "ProgramDerivedAddress".
Utf8_liquidity == <<108, 105, 113, 117, 105, 100, 105, 116, 121>>

Utf8_collateral == <<99, 111, 108, 108, 97, 116, 101, 114, 97, 108>>

Utf8_obligation == <<111, 98, 108, 105, 103, 97, 116, 105, 111, 110>>

Utf8_ProgramDerivedAddress ==
    << 80, 114, 111, 103, 114, 97, 109, 68, 101, 114, 105, 118, 101, 100,
       65, 100, 100, 114, 101, 115, 115 >>

RECURSIVE ToDecimal(_)
\* `${index}`: the decimal digits of a natural number as characters.
ToDecimal(index) ==
    IF index < 10 THEN <<48 + index>>
    ELSE Append(ToDecimal(index \div 10), 48 + (index % 10))

RECURSIVE Concat(_)
\* Buffer.concat(seeds)
Concat(buffers) ==
    IF buffers = << >> THEN << >> ELSE Head(buffers) \o Concat(Tail(buffers))

\* createProgramAddress without its curve check.
createProgramAddress_anyPoint(seeds, programId) ==
    [error   |-> "none",
     address |-> sha256(Concat(seeds) \o programId \o Utf8_ProgramDerivedAddress)]

\* PublicKey.createWithSeed(fromPublicKey, seed, programId)
createWithSeed(fromPublicKey, seed, programId) ==
    sha256(fromPublicKey \o seed \o programId)

\* PublicKey.createProgramAddress(seeds, programId): the digest of the seeds,
\* the program id and "ProgramDerivedAddress", refused when it is on the curve.
createProgramAddress(seeds, programId) ==
    LET hash == sha256(Concat(seeds) \o programId \o Utf8_ProgramDerivedAddress) IN
    IF is_on_curve(hash)
    THEN [error |-> "Invalid seeds, address must fall off the curve", address |-> << >>]
    ELSE [error |-> "none", address |-> hash]

RECURSIVE FirstOffCurve(_, _, _, _)
\* The loop of findProgramAddress over the nonces hi down to lo: the upper
\* half of the range is walked first, the lower half only when no nonce of
\* the upper half gave an address; 0 when none of lo..hi does.
FirstOffCurve(seeds, programId, lo, hi) ==
    IF lo > hi THEN 0
    ELSE IF lo = hi
    THEN IF createProgramAddress(Append(seeds, <<hi>>), programId).error = "none"
         THEN hi ELSE 0
    ELSE LET mid   == (lo + hi) \div 2
             upper == FirstOffCurve(seeds, programId, mid + 1, hi)
         IN  IF upper # 0 THEN upper ELSE FirstOffCurve(seeds, programId, lo, mid)

\* The loop of findProgramAddress: nonce counts down from its start and stops
\* at the first address off the curve; nonce 0 is not tried.
FindNonce(seeds, programId, nonce) ==
    LET found == FirstOffCurve(seeds, programId, 1, nonce) IN
    IF found = 0
    THEN [error |-> "Unable to find a viable program address nonce",
          address |-> << >>, nonce |-> 0]
    ELSE [error   |-> "none",
          address |-> createProgramAddress(Append(seeds, <<found>>), programId).address,
          nonce   |-> found]

\* PublicKey.findProgramAddress(seeds, programId)
findProgramAddress(seeds, programId) == FindNonce(seeds, programId, 255)

(***************************************************************************)
(* The ledger of a deployed market: the Market record, its liquidity and   *)
(* collateral pools at their seeded addresses, one obligation and the      *)
(* token mints.                                                            *)
(***************************************************************************)
\* Pools of each kind the model creates.
MaxPools == 2

\* BufferLayout.u32(property): four bytes.
u32(property) == [property |-> property, span |-> 4, type |-> "u32"]

\* MintLayout of @solana/spl-token.
MintLayout ==
    << u32("mintAuthorityOption"),
       publicKey("mintAuthority"),
       uint64("supply"),
       u8("decimals"),
       u8("isInitialized"),
       u32("freezeAuthorityOption"),
       publicKey("freezeAuthority") >>

COLLATERAL_MINT == Key(14)

\* The authority of the market and the addresses of its i-th pools, as the
\* on-chain program derives them.
MarketAuthority == findProgramAddress(<<MARKET_PUBKEY>>, PROGRAM_ID).address

LiquidityAddress(i) ==
    createWithSeed(MarketAuthority, Utf8_liquidity \o ToDecimal(i), PROGRAM_ID)

CollateralAddress(i) ==
    createWithSeed(MarketAuthority, Utf8_collateral \o ToDecimal(i), PROGRAM_ID)

\* The token account of the i-th pool of a kind: an address of its own.
PoolTokenAccount(kind, i) ==
    sha256((IF kind = "Liquidity" THEN Utf8_liquidity ELSE Utf8_collateral) \o <<i>>)

MarketKeys ==
    {MARKET_PUBKEY, OBLIGATION_PUBKEY, TOKEN_MINT, POOL_MINT, COLLATERAL_MINT}
        \cup {LiquidityAddress(i) : i \in 0..(MaxPools + 1)}
        \cup {CollateralAddress(i) : i \in 0..(MaxPools + 1)}

\* The 8 bytes the on-chain program stores for a count.
CountBytes(n) == u64_toBuffer(new_u64(n)).buffer

\* 2^56, a count BN.toNumber() refuses.
HugeCount == <<0, 0, 0, 0, 0, 0, 0, 1>>

\* The layout the deployed program of a generation writes a kind with.
DeployedLayout(gen, kind) ==
    IF Declared(gen, kind) THEN LayoutOf(gen, kind) ELSE LayoutOf("GenC", kind)

MarketRecord(gen, liquidityTokens, collateralTokens) ==
    encode(DeployedLayout(gen, "Market"),
           [FixtureValues("Market", 1, 1) EXCEPT
               !.liquidity_tokens  = liquidityTokens,
               !.collateral_tokens = collateralTokens])

LiquidityRecord(gen, i) ==
    LET layout == DeployedLayout(gen, "Liquidity")
        values == [FixtureValues("Liquidity", 1, 1) EXCEPT
                      !.token_account = PoolTokenAccount("Liquidity", i)]
    IN  encode(layout, [q \in Properties(layout) |-> values[q]])

CollateralRecord(gen, i) ==
    LET layout == DeployedLayout(gen, "Collateral")
        values == [FixtureValues("Collateral", 1, 1) EXCEPT
                      !.token_mint    = COLLATERAL_MINT,
                      !.token_account = PoolTokenAccount("Collateral", i)]
    IN  encode(layout, [q \in Properties(layout) |-> values[q]])

\* The obligation of OWNER_KEY on the first pools.
ObligationRecord ==
    encode(ObligationLayout("GenC"),
           [FixtureValues("Obligation", 1, 1) EXCEPT
               !.liquidity  = LiquidityAddress(0),
               !.collateral = CollateralAddress(0)])

\* A mint account of the token program with the given decimals.
MintRecord(decimals) ==
    encode(MintLayout,
           [ mintAuthorityOption   |-> <<1, 0, 0, 0>>,
             mintAuthority         |-> OWNER_KEY,
             supply                |-> <<0, 16, 0, 0, 0, 0, 0, 0>>,
             decimals              |-> decimals,
             isInitialized         |-> 1,
             freezeAuthorityOption |-> <<0, 0, 0, 0>>,
             freezeAuthority       |-> Zeros(32) ])

\* Decimals of the mints: those the deployed mints have and those a mint is
\* replaced with.
DeployedDecimals == 2

MintDecimals == {0, 2, 6}

\* The account at each address of a market with n pools of each kind.
DeployedAccount(gen, n, key) ==
    IF key = MARKET_PUBKEY
    THEN Account(PROGRAM_ID, MarketRecord(gen, CountBytes(n), CountBytes(n)))
    ELSE IF key \in {TOKEN_MINT, POOL_MINT, COLLATERAL_MINT}
    THEN Account(TOKEN_PROGRAM_ID, MintRecord(DeployedDecimals))
    ELSE IF key = OBLIGATION_PUBKEY
    THEN IF n > 0 THEN Account(PROGRAM_ID, ObligationRecord) ELSE NoAccount
    ELSE IF \E i \in 0..(n - 1) : key = LiquidityAddress(i)
    THEN Account(PROGRAM_ID,
                 LiquidityRecord(gen, CHOOSE i \in 0..(n - 1) : key = LiquidityAddress(i)))
    ELSE IF \E i \in 0..(n - 1) : key = CollateralAddress(i)
    THEN Account(PROGRAM_ID,
                 CollateralRecord(gen, CHOOSE i \in 0..(n - 1) : key = CollateralAddress(i)))
    ELSE NoAccount

\* What another party may leave at an address: a Market record with other
\* counts, a closed account, a pool account of another program or of another
\* size, a mint with other decimals.
MarketWritePool(gen, key, current) ==
    IF key = MARKET_PUBKEY
    THEN {Account(PROGRAM_ID, MarketRecord(gen, c, c)) :
            c \in {CountBytes(n) : n \in 0..(MaxPools + 1)} \cup {HugeCount}}
    ELSE IF key \in {TOKEN_MINT, POOL_MINT}
    THEN {Account(TOKEN_PROGRAM_ID, MintRecord(d)) : d \in MintDecimals} \cup {NoAccount}
    ELSE IF key = COLLATERAL_MINT
    THEN { }
    ELSE IF key \in {LiquidityAddress(0), CollateralAddress(0)} /\ current.exists
    THEN {NoAccount, Account(OTHER_PROGRAM, current.data),
          Account(PROGRAM_ID, Append(current.data, 0))}
    ELSE {NoAccount}

(***************************************************************************)
(* index.ts: the transaction builders of LendingMarket.  The market is     *)
(* MARKET_PUBKEY and the program PROGRAM_ID, as LendingMarket.init sets    *)
(* them.  A builder returns the Transaction (the sequence of its           *)
(* instructions) or the error thrown, with the parameter object it passed  *)
(* to the encoder when it got that far.                                    *)
(***************************************************************************)
\* The functions instruction.ts exports.
InstructionExports ==
    { "liquidityDeposit", "liquidityWithdraw", "createObligation",
      "obligationCollateralDeposit", "obligationCollateralWithdraw",
      "obligationLiquidityBorrow", "obligationLiquidityRepay" }

\* undefined where an address is expected.
NoAddress == << >>

\* entity.name, undefined when the decoder returned no such field.
Property(entity, name) ==
    IF name \in DOMAIN entity THEN entity[name] ELSE NoAddress

NoParams == [none |-> TRUE]

TxFailed(error) ==
    [error |-> error, params |-> NoParams, allocated |-> FALSE, transaction |-> << >>]

\* new Transaction().add(instruction) around the call of an encoder.
TxOf(p, r) ==
    [error       |-> r.error,
     params      |-> p,
     allocated   |-> r.allocated,
     transaction |-> IF r.error = "none" THEN <<r.instruction>> ELSE << >>]

RECURSIVE Pow10(_)
\* Math.pow(10, decimals)
Pow10(decimals) == IF decimals = 0 THEN 1 ELSE 10 * Pow10(decimals - 1)

\* getMintDecimals: no check that the account exists (reading data of null
\* throws), is a mint or is long enough (an integer field read past the end
\* throws).
getMintDecimals(ledger, pubkey) ==
    LET mintInfo == ledger[pubkey]
        off      == OffsetOf(MintLayout, IndexOf(MintLayout, "freezeAuthority"))
    IN  IF ~mintInfo.exists THEN [error |-> TypeError, decimals |-> 0]
        ELSE IF Len(mintInfo.data) < off THEN [error |-> "RangeError", decimals |-> 0]
        ELSE [error |-> "none", decimals |-> decode(MintLayout, mintInfo.data).decimals]

\* The market authority every builder derives.
marketAuthorityOf(pubkey, programId) == findProgramAddress(<<pubkey>>, programId)

liquidityDepositTx(ledger, gen, liquidityPubkey, uiAmount, source, destination, userTransferAuthority) ==
    LET liquidity == getLiquidityInfo(ledger, gen, liquidityPubkey)
        authority == marketAuthorityOf(MARKET_PUBKEY, PROGRAM_ID)
        mint      == getMintDecimals(ledger, liquidity.entity.tokenMint)
        p == [ programId             |-> PROGRAM_ID,
               market                |-> MARKET_PUBKEY,
               liquidity             |-> liquidityPubkey,
               source                |-> source,
               destination           |-> destination,
               tokenAccount          |-> liquidity.entity.tokenAccount,
               poolMint              |-> liquidity.entity.poolMint,
               marketAuthority       |-> authority.address,
               userTransferAuthority |-> userTransferAuthority,
               amount                |-> new_u64(uiAmount * Pow10(mint.decimals)) ]
    IN  IF liquidity.error # "none" THEN TxFailed(liquidity.error)
        ELSE IF authority.error # "none" THEN TxFailed(authority.error)
        ELSE IF mint.error # "none" THEN TxFailed(mint.error)
        ELSE TxOf(p, liquidityDeposit(gen, p))

liquidityWithdrawTx(ledger, gen, liquidityPubkey, uiAmount, source, destination, userTransferAuthority) ==
    LET liquidity == getLiquidityInfo(ledger, gen, liquidityPubkey)
        authority == marketAuthorityOf(MARKET_PUBKEY, PROGRAM_ID)
        mint      == getMintDecimals(ledger, liquidity.entity.poolMint)
        p == [ programId             |-> PROGRAM_ID,
               market                |-> MARKET_PUBKEY,
               liquidity             |-> liquidityPubkey,
               source                |-> source,
               destination           |-> destination,
               tokenAccount          |-> liquidity.entity.tokenAccount,
               poolMint              |-> liquidity.entity.poolMint,
               marketAuthority       |-> authority.address,
               userTransferAuthority |-> userTransferAuthority,
               amount                |-> new_u64(uiAmount * Pow10(mint.decimals)) ]
    IN  IF liquidity.error # "none" THEN TxFailed(liquidity.error)
        ELSE IF authority.error # "none" THEN TxFailed(authority.error)
        ELSE IF mint.error # "none" THEN TxFailed(mint.error)
        ELSE TxOf(p, liquidityWithdraw(gen, p))

\* The value createObligationTx returns, { tx, pubkey }, or the error thrown.
Created(obligationPubkey, tx) ==
    [pubkey |-> IF tx.error = "none" THEN obligationPubkey ELSE NoAddress] @@ tx

\* The parameter object createObligationTx passes to the encoder.
CreateObligationObject(self, obligationPubkey, liquidityPubkey, collateralPubkey, authority, owner) ==
    [ programId           |-> self.programId,
      market              |-> self.pubkey,
      obligation          |-> obligationPubkey,
      liquidity           |-> liquidityPubkey,
      collateral          |-> collateralPubkey,
      obligationAuthority |-> authority,
      owner               |-> owner ]

\* The encoder called on the parameter object, in a new Transaction.
CreateObligationEncoded(gen, obligationPubkey, p) ==
    Created(obligationPubkey, TxOf(p, createObligation(gen, p)))

\* createObligationTx once the authority is derived.
CreateObligationUnder(self, gen, liquidityPubkey, collateralPubkey, owner, authority) ==
    IF authority.error # "none"
    THEN [pubkey |-> NoAddress] @@ TxFailed(authority.error)
    ELSE CreateObligationEncoded(gen,
             createWithSeed(authority.address, Utf8_obligation, self.programId),
             CreateObligationObject(self,
                 createWithSeed(authority.address, Utf8_obligation, self.programId),
                 liquidityPubkey, collateralPubkey, authority.address, owner))

\* createObligationTx deriving the authority from the seeds with the market
\* before the owner.
LendingMarket_createObligationTx_marketFirst(self, gen, liquidityPubkey, collateralPubkey, owner) ==
    CreateObligationUnder(self, gen, liquidityPubkey, collateralPubkey, owner,
        findProgramAddress(<<self.pubkey, owner, liquidityPubkey, collateralPubkey>>,
                           self.programId))

\* createObligationTx of a LendingMarket `self`: it reads no account and
\* returns { tx, pubkey }.
LendingMarket_createObligationTx(self, gen, liquidityPubkey, collateralPubkey, owner) ==
    CreateObligationUnder(self, gen, liquidityPubkey, collateralPubkey, owner,
        findProgramAddress(<<owner, self.pubkey, liquidityPubkey, collateralPubkey>>,
                           self.programId))

\* createObligationTx of the LendingMarket of MARKET_PUBKEY.
createObligationTx(gen, liquidityPubkey, collateralPubkey, owner) ==
    LendingMarket_createObligationTx(LendingMarket_init(MARKET_PUBKEY, NoSigner), gen,
                                     liquidityPubkey, collateralPubkey, owner)

obligationCollateralDepositTx(ledger, gen, obligationPubkey, uiAmount, source, userTransferAuthority) ==
    LET obligation == getObligationInfo(ledger, gen, obligationPubkey)
        collateral == getCollateralInfo(ledger, gen, obligation.entity.collateral)
        mint       == getMintDecimals(ledger, collateral.entity.tokenMint)
        p == [ programId              |-> PROGRAM_ID,
               market                 |-> MARKET_PUBKEY,
               obligation             |-> obligationPubkey,
               collateral             |-> obligation.entity.collateral,
               source                 |-> source,
               collateralTokenAccount |-> collateral.entity.tokenAccount,
               userTransferAuthority  |-> userTransferAuthority,
               amount                 |-> new_u64(uiAmount * Pow10(mint.decimals)) ]
    IN  IF obligation.error # "none" THEN TxFailed(obligation.error)
        ELSE IF collateral.error # "none" THEN TxFailed(collateral.error)
        ELSE IF mint.error # "none" THEN TxFailed(mint.error)
        ELSE TxOf(p, obligationCollateralDeposit(gen, p))

obligationCollateralWithdrawTx(ledger, gen, obligationPubkey, uiAmount, destination) ==
    LET obligation == getObligationInfo(ledger, gen, obligationPubkey)
        liquidity  == getLiquidityInfo(ledger, gen, obligation.entity.liquidity)
        collateral == getCollateralInfo(ledger, gen, obligation.entity.collateral)
        authority  == marketAuthorityOf(MARKET_PUBKEY, PROGRAM_ID)
        mint       == getMintDecimals(ledger, collateral.entity.tokenMint)
        p == [ programId              |-> PROGRAM_ID,
               market                 |-> MARKET_PUBKEY,
               obligation             |-> obligationPubkey,
               liquidity              |-> obligation.entity.liquidity,
               collateral             |-> obligation.entity.collateral,
               destination            |-> destination,
               collateralTokenAccount |-> collateral.entity.tokenAccount,
               obligationOwner        |-> obligation.entity.owner,
               marketAuthority        |-> authority.address,
               amount                 |-> new_u64(uiAmount * Pow10(mint.decimals)),
               liquidityOracle        |-> Property(liquidity.entity, "oracle"),
               collateralOracle       |-> Property(collateral.entity, "oracle") ]
    IN  IF obligation.error # "none" THEN TxFailed(obligation.error)
        ELSE IF liquidity.error # "none" THEN TxFailed(liquidity.error)
        ELSE IF collateral.error # "none" THEN TxFailed(collateral.error)
        ELSE IF authority.error # "none" THEN TxFailed(authority.error)
        ELSE IF mint.error # "none" THEN TxFailed(mint.error)
        ELSE TxOf(p, obligationCollateralWithdraw(gen, p))

obligationLiquidityBorrowTx(ledger, gen, obligationPubkey, uiAmount, destination) ==
    LET obligation == getObligationInfo(ledger, gen, obligationPubkey)
        liquidity  == getLiquidityInfo(ledger, gen, obligation.entity.liquidity)
        collateral == getCollateralInfo(ledger, gen, obligation.entity.collateral)
        authority  == marketAuthorityOf(MARKET_PUBKEY, PROGRAM_ID)
        mint       == getMintDecimals(ledger, liquidity.entity.tokenMint)
        p == [ programId             |-> PROGRAM_ID,
               market                |-> MARKET_PUBKEY,
               obligation            |-> obligationPubkey,
               liquidity             |-> obligation.entity.liquidity,
               collateral            |-> obligation.entity.collateral,
               destination           |-> destination,
               liquidityTokenAccount |-> liquidity.entity.tokenAccount,
               obligationOwner       |-> obligation.entity.owner,
               marketAuthority       |-> authority.address,
               amount                |-> new_u64(uiAmount * Pow10(mint.decimals)),
               liquidityOracle       |-> Property(liquidity.entity, "oracle"),
               collateralOracle      |-> Property(collateral.entity, "oracle") ]
    IN  IF obligation.error # "none" THEN TxFailed(obligation.error)
        ELSE IF liquidity.error # "none" THEN TxFailed(liquidity.error)
        ELSE IF collateral.error # "none" THEN TxFailed(collateral.error)
        ELSE IF authority.error # "none" THEN TxFailed(authority.error)
        ELSE IF mint.error # "none" THEN TxFailed(mint.error)
        ELSE TxOf(p, obligationLiquidityBorrow(gen, p))

obligationLiquidityRepayTx(ledger, gen, obligationPubkey, uiAmount, source, userTransferAuthority) ==
    LET obligation == getObligationInfo(ledger, gen, obligationPubkey)
        liquidity  == getLiquidityInfo(ledger, gen, obligation.entity.liquidity)
        mint       == getMintDecimals(ledger, liquidity.entity.tokenMint)
        p == [ programId             |-> PROGRAM_ID,
               market                |-> MARKET_PUBKEY,
               obligation            |-> obligationPubkey,
               liquidity             |-> obligation.entity.liquidity,
               source                |-> source,
               liquidityTokenAccount |-> liquidity.entity.tokenAccount,
               userTransferAuthority |-> userTransferAuthority,
               amount                |-> new_u64(uiAmount * Pow10(mint.decimals)) ]
    IN  IF obligation.error # "none" THEN TxFailed(obligation.error)
        ELSE IF liquidity.error # "none" THEN TxFailed(liquidity.error)
        ELSE IF mint.error # "none" THEN TxFailed(mint.error)
        ELSE TxOf(p, obligationLiquidityRepay(gen, p))

\* liquidateObligationTx calls Instruction.liquidateObligation, which
\* instruction.ts does not export: once the three records are read and the
\* authority derived, calling undefined throws a TypeError.
liquidateObligationTx(ledger, gen, obligationPubkey, source, destination, userTransferAuthority) ==
    LET obligation == getObligationInfo(ledger, gen, obligationPubkey)
        liquidity  == getLiquidityInfo(ledger, gen, obligation.entity.liquidity)
        collateral == getCollateralInfo(ledger, gen, obligation.entity.collateral)
        authority  == marketAuthorityOf(MARKET_PUBKEY, PROGRAM_ID)
        p == [ programId              |-> PROGRAM_ID,
               market                 |-> MARKET_PUBKEY,
               obligation             |-> obligationPubkey,
               source                 |-> source,
               destination            |-> destination,
               liquidity              |-> obligation.entity.liquidity,
               collateral             |-> obligation.entity.collateral,
               liquidityTokenAccount  |-> liquidity.entity.tokenAccount,
               collateralTokenAccount |-> collateral.entity.tokenAccount,
               userTransferAuthority  |-> userTransferAuthority,
               marketAuthority        |-> authority.address,
               liquidityOracle        |-> Property(liquidity.entity, "oracle"),
               collateralOracle       |-> Property(collateral.entity, "oracle") ]
    IN  IF obligation.error # "none" THEN TxFailed(obligation.error)
        ELSE IF liquidity.error # "none" THEN TxFailed(liquidity.error)
        ELSE IF collateral.error # "none" THEN TxFailed(collateral.error)
        ELSE IF authority.error # "none" THEN TxFailed(authority.error)
        ELSE IF "liquidateObligation" \notin InstructionExports
        THEN TxOf(p, Failed(TypeError, FALSE))
        ELSE TxOf(p, Failed("unreachable", FALSE))

(***************************************************************************)
(* index.ts: getLiquidityTokens and getCollateralTokens.                   *)
(***************************************************************************)
\* BN.toNumber() of a u64 given by its bytes, most significant first: it
\* throws above 53 bits.
toNumber(value) ==
    IF value[1] # 0 \/ value[2] >= 32
    THEN [error |-> "Number can only safely store up to 53 bits", number |-> 0]
    ELSE IF \E k \in 2..4 : value[k] # 0
    THEN [error |-> "RangeError", number |-> 0]
    ELSE [error |-> "none",
          number |-> ((value[5] * 256 + value[6]) * 256 + value[7]) * 256 + value[8]]

\* `liquidity${index}` starting at 1.
liquiditySeed_fromOne(index) == Utf8_liquidity \o ToDecimal(index + 1)

\* `liquidity${index}`
liquiditySeed(index) == Utf8_liquidity \o ToDecimal(index)

\* `collateral${index}`
collateralSeed(index) == Utf8_collateral \o ToDecimal(index)

\* A failed enumeration; `failed` is the index (from 1) of the read whose
\* rejection settled the call, 0 when the call failed before its reads.
TokensFailed(error, fetched) ==
    [error |-> error, value |-> << >>, fetched |-> fetched, failed |-> 0]

\* Promise.all delivering the records in the order of their completion,
\* here the reverse of the order of the addresses.
AllOf_completionOrder(pubkeys, reads) ==
    LET fetched == {MARKET_PUBKEY} \cup {pubkeys[i] : i \in DOMAIN pubkeys}
        failing == {i \in DOMAIN reads : reads[i].error # "none"}
    IN  IF failing = {}
        THEN {[error   |-> "none",
               value   |-> [i \in DOMAIN reads |-> reads[Len(reads) + 1 - i].entity],
               fetched |-> fetched,
               failed  |-> 0]}
        ELSE {[error |-> reads[i].error, value |-> << >>, fetched |-> fetched,
               failed |-> i] : i \in failing}

\* Promise.all over the reads of the derived addresses: every read is
\* started; the list of their records is returned when all succeed, and
\* otherwise the error of whichever failing read settles first.
AllOf(pubkeys, reads) ==
    LET fetched == {MARKET_PUBKEY} \cup {pubkeys[i] : i \in DOMAIN pubkeys}
        failing == {i \in DOMAIN reads : reads[i].error # "none"}
    IN  IF failing = {}
        THEN {[error   |-> "none",
               value   |-> [i \in DOMAIN reads |-> reads[i].entity],
               fetched |-> fetched,
               failed  |-> 0]}
        ELSE {[TokensFailed(reads[i].error, fetched) EXCEPT !.failed = i] : i \in failing}

\* The outcomes a call of getLiquidityTokens may have.
getLiquidityTokens(ledger, gen) ==
    LET market    == getMarketInfo(ledger, gen)
        authority == marketAuthorityOf(MARKET_PUBKEY, PROGRAM_ID)
        count     == toNumber(market.entity.liquidityTokens)
        liquidityPubkeys ==
            [i \in 1..count.number |->
                createWithSeed(authority.address, liquiditySeed(i - 1), PROGRAM_ID)]
    IN  IF market.error # "none" THEN {TokensFailed(market.error, {MARKET_PUBKEY})}
        ELSE IF authority.error # "none"
        THEN {TokensFailed(authority.error, {MARKET_PUBKEY})}
        ELSE IF count.error # "none" THEN {TokensFailed(count.error, {MARKET_PUBKEY})}
        ELSE AllOf(liquidityPubkeys,
                   [i \in DOMAIN liquidityPubkeys |->
                       getLiquidityInfo(ledger, gen, liquidityPubkeys[i])])

\* The outcomes a call of getCollateralTokens may have.
getCollateralTokens(ledger, gen) ==
    LET market    == getMarketInfo(ledger, gen)
        authority == marketAuthorityOf(MARKET_PUBKEY, PROGRAM_ID)
        count     == toNumber(market.entity.collateralTokens)
        collateralPubkeys ==
            [i \in 1..count.number |->
                createWithSeed(authority.address, collateralSeed(i - 1), PROGRAM_ID)]
    IN  IF market.error # "none" THEN {TokensFailed(market.error, {MARKET_PUBKEY})}
        ELSE IF authority.error # "none"
        THEN {TokensFailed(authority.error, {MARKET_PUBKEY})}
        ELSE IF count.error # "none" THEN {TokensFailed(count.error, {MARKET_PUBKEY})}
        ELSE AllOf(collateralPubkeys,
                   [i \in DOMAIN collateralPubkeys |->
                       getCollateralInfo(ledger, gen, collateralPubkeys[i])])

(***************************************************************************)
(* SpecMarket: a client of a deployed market calls the transaction         *)
(* builders and the token enumerations while other parties write to the    *)
(* ledger.                                                                 *)
(***************************************************************************)
\* uiAmount: whole numbers of tokens.
UiAmounts == {1, 5}

\* The pools a client deposits to or withdraws from.
PoolArgs == {LiquidityAddress(0), LiquidityAddress(1)}

\* The caller's own addresses.
SOURCE                  == AddressOf("source", 0)
DESTINATION             == AddressOf("destination", 0)
USER_TRANSFER_AUTHORITY == AddressOf("userTransferAuthority", 0)

\* index.ts imports './layout' and './instruction': no method runs when the
\* layout module fails to load.
CallBuilder(gen, r) == IF ModuleLoads(gen) THEN r ELSE TxFailed(TypeError)

CallTokens(gen, outcomes) ==
    IF ModuleLoads(gen) THEN outcomes ELSE {TokensFailed(TypeError, {})}

BuilderOutcome(op, command, pubkey, uiAmount, r) ==
    [op |-> op, kind |-> command, pubkey |-> pubkey, error |-> r.error,
     info |-> NoAccount, entity |-> NoEntity,
     uiAmount |-> uiAmount, params |-> r.params, allocated |-> r.allocated,
     transaction |-> r.transaction, value |-> << >>, fetched |-> {},
     sent |-> << >>]

TokensOutcome(op, kind, r) ==
    [op |-> op, kind |-> kind, pubkey |-> MARKET_PUBKEY, error |-> r.error,
     info |-> NoAccount, entity |-> NoEntity,
     uiAmount |-> 0, params |-> NoParams, allocated |-> FALSE,
     transaction |-> << >>, value |-> r.value, fetched |-> r.fetched,
     failed |-> r.failed, sent |-> << >>]

InitMarket ==
    /\ registry \in Generations
    /\ \E n \in 0..MaxPools :
         accounts = [k \in MarketKeys |-> DeployedAccount(registry, n, k)]
    /\ writes = 0
    /\ result = NoResult
    /\ lendingMarket = LendingMarket_init(MARKET_PUBKEY, NoSigner)

\* Another party creates, rewrites or closes an account of the market.
MarketWrite ==
    /\ writes < MaxWrites
    /\ \E k \in MarketKeys :
         \E a \in MarketWritePool(registry, k, accounts[k]) :
            accounts' = [accounts EXCEPT ![k] = a]
    /\ writes' = writes + 1
    /\ result' = NoResult
    /\ UNCHANGED <<registry, lendingMarket>>

LiquidityDepositTx ==
    /\ result = NoResult
    /\ \E liquidityPubkey \in PoolArgs, uiAmount \in UiAmounts :
         result' = BuilderOutcome("liquidityDepositTx", "LiquidityDeposit",
                      liquidityPubkey, uiAmount,
                      CallBuilder(registry,
                          liquidityDepositTx(accounts, registry, liquidityPubkey, uiAmount,
                                             SOURCE, DESTINATION, USER_TRANSFER_AUTHORITY)))
    /\ UNCHANGED <<registry, accounts, writes, lendingMarket>>

LiquidityWithdrawTx ==
    /\ result = NoResult
    /\ \E liquidityPubkey \in PoolArgs, uiAmount \in UiAmounts :
         result' = BuilderOutcome("liquidityWithdrawTx", "LiquidityWithdraw",
                      liquidityPubkey, uiAmount,
                      CallBuilder(registry,
                          liquidityWithdrawTx(accounts, registry, liquidityPubkey, uiAmount,
                                              SOURCE, DESTINATION, USER_TRANSFER_AUTHORITY)))
    /\ UNCHANGED <<registry, accounts, writes, lendingMarket>>

CreateObligationTx ==
    /\ result = NoResult
    /\ \E liquidityPubkey \in PoolArgs :
         result' = BuilderOutcome("createObligationTx", "CreateObligation",
                      liquidityPubkey, 0,
                      CallBuilder(registry,
                          createObligationTx(registry, liquidityPubkey,
                                             CollateralAddress(0), OWNER_KEY)))
    /\ UNCHANGED <<registry, accounts, writes, lendingMarket>>

ObligationCollateralDepositTx ==
    /\ result = NoResult
    /\ \E uiAmount \in UiAmounts :
         result' = BuilderOutcome("obligationCollateralDepositTx",
                      "ObligationCollateralDeposit", OBLIGATION_PUBKEY, uiAmount,
                      CallBuilder(registry,
                          obligationCollateralDepositTx(accounts, registry,
                              OBLIGATION_PUBKEY, uiAmount, SOURCE, USER_TRANSFER_AUTHORITY)))
    /\ UNCHANGED <<registry, accounts, writes, lendingMarket>>

ObligationCollateralWithdrawTx ==
    /\ result = NoResult
    /\ \E uiAmount \in UiAmounts :
         result' = BuilderOutcome("obligationCollateralWithdrawTx",
                      "ObligationCollateralWithdraw", OBLIGATION_PUBKEY, uiAmount,
                      CallBuilder(registry,
                          obligationCollateralWithdrawTx(accounts, registry,
                              OBLIGATION_PUBKEY, uiAmount, DESTINATION)))
    /\ UNCHANGED <<registry, accounts, writes, lendingMarket>>

ObligationLiquidityBorrowTx ==
    /\ result = NoResult
    /\ \E uiAmount \in UiAmounts :
         result' = BuilderOutcome("obligationLiquidityBorrowTx",
                      "ObligationLiquidityBorrow", OBLIGATION_PUBKEY, uiAmount,
                      CallBuilder(registry,
                          obligationLiquidityBorrowTx(accounts, registry,
                              OBLIGATION_PUBKEY, uiAmount, DESTINATION)))
    /\ UNCHANGED <<registry, accounts, writes, lendingMarket>>

ObligationLiquidityRepayTx ==
    /\ result = NoResult
    /\ \E uiAmount \in UiAmounts :
         result' = BuilderOutcome("obligationLiquidityRepayTx",
                      "ObligationLiquidityRepay", OBLIGATION_PUBKEY, uiAmount,
                      CallBuilder(registry,
                          obligationLiquidityRepayTx(accounts, registry,
                              OBLIGATION_PUBKEY, uiAmount, SOURCE, USER_TRANSFER_AUTHORITY)))
    /\ UNCHANGED <<registry, accounts, writes, lendingMarket>>

LiquidateObligationTx ==
    /\ result = NoResult
    /\ result' = BuilderOutcome("liquidateObligationTx", "LiquidateObligation",
                    OBLIGATION_PUBKEY, 0,
                    CallBuilder(registry,
                        liquidateObligationTx(accounts, registry, OBLIGATION_PUBKEY,
                            SOURCE, DESTINATION, USER_TRANSFER_AUTHORITY)))
    /\ UNCHANGED <<registry, accounts, writes, lendingMarket>>

GetLiquidityTokens ==
    /\ result = NoResult
    /\ \E r \in CallTokens(registry, getLiquidityTokens(accounts, registry)) :
         result' = TokensOutcome("getLiquidityTokens", "Liquidity", r)
    /\ UNCHANGED <<registry, accounts, writes, lendingMarket>>

GetCollateralTokens ==
    /\ result = NoResult
    /\ \E r \in CallTokens(registry, getCollateralTokens(accounts, registry)) :
         result' = TokensOutcome("getCollateralTokens", "Collateral", r)
    /\ UNCHANGED <<registry, accounts, writes, lendingMarket>>

NextMarket ==
    \/ MarketWrite
    \/ LiquidityDepositTx
    \/ LiquidityWithdrawTx
    \/ CreateObligationTx
    \/ ObligationCollateralDepositTx
    \/ ObligationCollateralWithdrawTx
    \/ ObligationLiquidityBorrowTx
    \/ ObligationLiquidityRepayTx
    \/ LiquidateObligationTx
    \/ GetLiquidityTokens
    \/ GetCollateralTokens

SpecMarket == InitMarket /\ [][NextMarket]_vars

(***************************************************************************)
(* Properties of the transaction builders and the token enumerations,      *)
(* checked under SpecMarket.                                               *)
(***************************************************************************)
BuilderOps ==
    { "liquidityDepositTx", "liquidityWithdrawTx", "createObligationTx",
      "obligationCollateralDepositTx", "obligationCollateralWithdrawTx",
      "obligationLiquidityBorrowTx", "obligationLiquidityRepayTx",
      "liquidateObligationTx" }

\* A builder returned a transaction.
TxBuilt == result.op \in BuilderOps /\ result.error = "none"

\* The fields of a parameter object that are addresses of accounts.
AddressFields(p) == DOMAIN p \ {"programId", "amount"}

\* The positions of the account list that hold an address.
PositionsOf(address, instruction) ==
    {i \in DOMAIN instruction.keys : instruction.keys[i].pubkey = address}

\* C13: for every command built by a *Tx method, each address passed in the
\* encoder's parameter object (liquidity, liquidityOracle and collateralOracle
\* included) appears at exactly one position of the account list of the
\* instruction.
C13_NoAddressOmitted ==
    TxBuilt =>
        \A f \in AddressFields(result.params) :
            Cardinality(PositionsOf(result.params[f], result.transaction[1])) = 1

\* The three records liquidateObligationTx reads are decodable.
RecordsDecodable ==
    LET obligation == getObligationInfo(accounts, registry, OBLIGATION_PUBKEY) IN
    /\ ModuleLoads(registry)
    /\ obligation.error = "none"
    /\ getLiquidityInfo(accounts, registry, obligation.entity.liquidity).error = "none"
    /\ getCollateralInfo(accounts, registry, obligation.entity.collateral).error = "none"

\* C14: liquidateObligationTx, given decodable obligation, liquidity and
\* collateral records, returns a transaction of one instruction whose payload
\* is the LiquidateObligation opcode and whose account list holds the
\* obligation, source, destination, liquidity, collateral, both token
\* accounts, the user transfer authority and the market authority.
C14_LiquidateEncoded ==
    result.op = "liquidateObligationTx" /\ RecordsDecodable =>
        /\ result.error = "none"
        /\ Len(result.transaction) = 1
        /\ result.transaction[1].data =
              <<Entry(registry, "LiquidateObligation").index>>
        /\ \A f \in { "obligation", "source", "destination", "liquidity",
                      "collateral", "liquidityTokenAccount",
                      "collateralTokenAccount", "userTransferAuthority",
                      "marketAuthority" } :
              PositionsOf(result.params[f], result.transaction[1]) # {}

\* The 8 bytes of the amount in the payload of the instruction of a
\* transaction.
RawAmount(transaction) == SubSeq(transaction[1].data, 2, 9)

\* C19: for the same pool and the same uiAmount, liquidityWithdrawTx encodes
\* the raw amount liquidityDepositTx encodes: uiAmount * 10^decimals of the
\* mint liquidity.tokenMint.
C19_WithdrawAmount ==
    result.op = "liquidityWithdrawTx" /\ result.error = "none" =>
        LET liquidity == getLiquidityInfo(accounts, registry, result.pubkey).entity
            deposit   == liquidityDepositTx(accounts, registry, result.pubkey,
                             result.uiAmount, SOURCE, DESTINATION,
                             USER_TRANSFER_AUTHORITY)
        IN  accounts[liquidity.tokenMint].exists =>
              /\ deposit.error = "none"
              /\ RawAmount(result.transaction) = RawAmount(deposit.transaction)
              /\ RawAmount(result.transaction) =
                    u64_toBuffer(new_u64(result.uiAmount *
                        Pow10(decode(MintLayout,
                                     accounts[liquidity.tokenMint].data).decimals))).buffer

TokenOps == {"getLiquidityTokens", "getCollateralTokens"}

\* An enumeration returned its list.
TokensReturned == result.op \in TokenOps /\ result.error = "none"

\* The count of the enumerated kind in the Market record of the ledger.
CountInMarket ==
    LET d     == decode(MarketLayout(registry), accounts[MARKET_PUBKEY].data)
        bytes == IF result.op = "getLiquidityTokens"
                 THEN d.liquidity_tokens ELSE d.collateral_tokens
    IN  CHOOSE n \in 0..(MaxPools + 1) : CountBytes(n) = bytes

\* The address of the i-th record of the enumerated kind.
SeededAddress(i) ==
    IF result.op = "getLiquidityTokens" THEN LiquidityAddress(i) ELSE CollateralAddress(i)

\* C20: getLiquidityTokens (getCollateralTokens) returns exactly as many
\* entries as the count of the Market record; entry i is the record at the
\* address derived from the market authority with seed "liquidity{i}"
\* ("collateral{i}"), i = 0..count-1, and a count of 0 yields the empty list
\* without a fetch of any sub-account.
C20_TokenEnumeration ==
    TokensReturned =>
        /\ Len(result.value) = CountInMarket
        /\ \A i \in 1..CountInMarket :
              result.value[i] =
                 [pubkey |-> SeededAddress(i - 1)]
                    @@ From(result.kind, registry, accounts[SeededAddress(i - 1)].data)
        /\ result.fetched =
              {MARKET_PUBKEY} \cup {SeededAddress(i) : i \in 0..(CountInMarket - 1)}
        /\ CountInMarket = 0 =>
              result.value = << >> /\ result.fetched = {MARKET_PUBKEY}

\* A list of two liquidity records was returned from a market whose count
\* was rewritten after its deployment.
C20_Witness ==
    /\ result.op = "getLiquidityTokens"
    /\ result.error = "none"
    /\ Len(result.value) = 2
    /\ result.value[1].pubkey # result.value[2].pubkey
    /\ writes > 0

(***************************************************************************)
(* Properties of the flags of the account references, checked under        *)
(* SpecEncoder.                                                            *)
(***************************************************************************)
\* The parameter that is the program-derived authority of an instruction,
\* for the encoders that take one.
DerivedAuthority(op) ==
    IF op = "createObligation" THEN "obligationAuthority" ELSE "marketAuthority"

AuthorityOps ==
    { "liquidityDeposit", "liquidityWithdraw", "createObligation",
      "obligationCollateralWithdraw", "obligationLiquidityBorrow" }

\* C24: in every instruction that references a program-derived authority
\* (marketAuthority of liquidityDeposit, liquidityWithdraw,
\* obligationCollateralWithdraw and obligationLiquidityBorrow,
\* obligationAuthority of createObligation) the reference is there and is
\* flagged neither signer nor writable.
C24_AuthorityNonSigning ==
    Encoded /\ result.op \in AuthorityOps =>
        LET keys      == result.instruction.keys
            authority == result.params[DerivedAuthority(result.op)]
        IN  /\ \E i \in DOMAIN keys : keys[i].pubkey = authority
            /\ \A i \in DOMAIN keys :
                  keys[i].pubkey = authority =>
                      ~keys[i].isSigner /\ ~keys[i].isWritable

\* A collateral withdraw was encoded: its seventh reference is the market
\* authority, next to the signing owner of the obligation.
C24_Witness ==
    /\ Encoded
    /\ result.op = "obligationCollateralWithdraw"
    /\ result.instruction.keys[7].pubkey = result.params.marketAuthority
    /\ result.instruction.keys[6].isSigner

\* The parameter that is the user-side authority of an instruction.
UserAuthority(op) ==
    CASE op = "createObligation" -> "owner"
      [] op \in {"obligationCollateralWithdraw", "obligationLiquidityBorrow"}
                                   -> "obligationOwner"
      [] OTHER                     -> "userTransferAuthority"

\* The positions of the references flagged signer.
SignerPositions(instruction) ==
    {i \in DOMAIN instruction.keys : instruction.keys[i].isSigner}

\* C27: every instruction of instruction.ts has exactly one reference
\* flagged signer; it is the user-side authority of the command
\* (userTransferAuthority, owner or obligationOwner) and is not writable; no
\* other reference (program, sysvar, market, pool, token account) is flagged
\* signer.
C27_OneSigner ==
    Encoded =>
        LET keys == result.instruction.keys
            user == result.params[UserAuthority(result.op)]
        IN  /\ Cardinality(SignerPositions(result.instruction)) = 1
            /\ \A i \in DOMAIN keys :
                  /\ keys[i].isSigner <=> keys[i].pubkey = user
                  /\ keys[i].isSigner => ~keys[i].isWritable

\* A repay was encoded from the rotated addresses: the sixth of its seven
\* references is the signer.
C27_Witness ==
    /\ Encoded
    /\ result.op = "obligationLiquidityRepay"
    /\ result.params.market = AddressOf("market", 6)
    /\ SignerPositions(result.instruction) = {6}
    /\ Len(result.instruction.keys) = 7

(***************************************************************************)
(* Correlation of the reads of an enumeration with their items, checked    *)
(* under SpecMarket.                                                       *)
(***************************************************************************)
\* The read of item i (from 0) of the enumeration made, on its own.
ItemRead(i) ==
    IF result.op = "getLiquidityTokens"
    THEN getLiquidityInfo(accounts, registry, SeededAddress(i))
    ELSE getCollateralInfo(accounts, registry, SeededAddress(i))

TupleKeys == {OWNER_KEY, MARKET_PUBKEY, LIQUIDITY_PUBKEY}

\* Seeds of one byte, and the seed lists a program authority is derived
\* from: one or two short seeds, or the address of a market.
ShortSeeds == {<<x>> : x \in 0..15}

SeedLists ==
    {<<s>> : s \in ShortSeeds}
        \cup {<<s, t>> : s \in {<<x>> : x \in 0..7}, t \in {<<x>> : x \in 0..7}}
        \cup {<<k>> : k \in TupleKeys}

DeriveOutcome(op, error, seeds, nonce, address, tx) ==
    [op |-> op, kind |-> "none", pubkey |-> address, error |-> error,
     info |-> NoAccount, entity |-> NoEntity,
     seeds |-> seeds, nonce |-> nonce,
     params |-> tx.params, transaction |-> tx.transaction]

InitDerive ==
    /\ registry \in Generations
    /\ accounts = [k \in FetchKeys |-> NoAccount]
    /\ writes = 0
    /\ result = NoResult
    /\ lendingMarket \in
          {LendingMarket_new(pubkey, programId, NoSigner) :
              pubkey \in TupleKeys, programId \in {PROGRAM_ID, OTHER_PROGRAM}}

\* PublicKey.findProgramAddress(seeds, this.programId)
FindProgramAddress ==
    /\ result = NoResult
    /\ \E seeds \in SeedLists :
         LET r == findProgramAddress(seeds, lendingMarket.programId) IN
         result' = DeriveOutcome("findProgramAddress", r.error, seeds, r.nonce,
                                 r.address, TxFailed(r.error))
    /\ UNCHANGED <<registry, accounts, writes, lendingMarket>>

\* createObligationTx(liquidityPubkey, collateralPubkey, owner)
DeriveObligation ==
    /\ result = NoResult
    /\ \E owner \in TupleKeys, liquidityPubkey \in TupleKeys, collateralPubkey \in TupleKeys :
         LET r == CallBuilder(registry,
                     LendingMarket_createObligationTx(lendingMarket, registry,
                         liquidityPubkey, collateralPubkey, owner))
         IN  result' = DeriveOutcome("createObligationTx", r.error,
                          <<owner, lendingMarket.pubkey, liquidityPubkey, collateralPubkey>>,
                          0, IF r.error = "none" THEN r.pubkey ELSE NoAddress, r)
    /\ UNCHANGED <<registry, accounts, writes, lendingMarket>>

NextDerive ==
    \/ FindProgramAddress
    \/ DeriveObligation

SpecDerive == InitDerive /\ [][NextDerive]_vars

\* The candidate address of a bump: the digest of the seeds, the bump, the
\* program id and the marker.
Candidate(seeds, bump, programId) ==
    sha256(Concat(seeds) \o <<bump>> \o programId \o Utf8_ProgramDerivedAddress)

\* Whether bump is the first of 255, 254, ... whose candidate is off the
\* curve.
FirstBump(seeds, bump, programId) ==
    /\ ~is_on_curve(Candidate(seeds, bump, programId))
    /\ \A above \in (bump + 1)..255 : is_on_curve(Candidate(seeds, above, programId))

ObligationAddress(owner, market, liquidity, collateral, programId) ==
    LET seeds == <<owner, market, liquidity, collateral>>
        skip  == CHOOSE k \in 0..254 : FirstBump(seeds, 255 - k, programId)
    IN  sha256(Candidate(seeds, 255 - skip, programId) \o Utf8_obligation \o programId)

\* The tuples that differ from the tuple t = <<owner, market, liquidity,
\* collateral, programId>> in one element, or by two seeds swapped.
Neighbours(t) ==
    ({[t EXCEPT ![i] = k] : i \in 1..4, k \in TupleKeys}
        \cup {[t EXCEPT ![5] = q] : q \in {PROGRAM_ID, OTHER_PROGRAM}}
        \cup {[t EXCEPT ![i] = t[j], ![j] = t[i]] : i \in 1..4, j \in 1..4})
      \ {t}

\* C22: createObligationTx returns the address seeded "obligation" under the
\* authority of the ordered seeds [owner, market, liquidity, collateral]; the
\* address depends on the tuple alone (every layout registry that encodes
\* the command yields the same one); the first reference of the instruction
\* is the returned address; changing one element of the tuple, or swapping
\* two seeds, changes the address.
C22_ObligationAddress ==
    result.op = "createObligationTx" /\ result.error = "none" =>
        LET t == result.seeds \o <<lendingMarket.programId>> IN
        /\ result.pubkey = ObligationAddress(t[1], t[2], t[3], t[4], t[5])
        /\ \A gen \in Generations :
              LET again == CallBuilder(gen,
                              LendingMarket_createObligationTx(lendingMarket, gen,
                                  t[3], t[4], t[1]))
              IN  again.error = "none" => again.pubkey = result.pubkey
        /\ result.transaction[1].keys[1].pubkey = result.pubkey
        /\ \A u \in Neighbours(t) :
              ObligationAddress(u[1], u[2], u[3], u[4], u[5]) # result.pubkey

\* An obligation address derived for a tuple whose owner and liquidity are
\* those of another tuple, swapped.
C22_Witness ==
    /\ result.op = "createObligationTx"
    /\ result.error = "none"
    /\ result.seeds[1] = LIQUIDITY_PUBKEY
    /\ result.seeds[3] = OWNER_KEY
    /\ result.pubkey # NoAddress
    /\ registry = "GenA"

(***************************************************************************)
(* index.ts: the submitting methods of LendingMarket.  Each builds its     *)
(* transaction with the *Tx method and hands it to                         *)
(* sendAndConfirmTransaction with its signers.  What the on-chain program  *)
(* does with a transaction is not part of this repository's client code;   *)
(* the model records what was sent.                                        *)
(***************************************************************************)
\* get payer() answering a signer of the zero key where none was given.
LendingMarket_payer_defaultKey(self) ==
    IF self.payer = NoSigner
    THEN [error |-> "none", signer |-> Signer(Zeros(32))]
    ELSE [error |-> "none", signer |-> self.payer]

\* get payer()
LendingMarket_payer(self) ==
    IF self.payer = NoSigner
    THEN [error |-> "Payer not specified", signer |-> NoSigner]
    ELSE [error |-> "none", signer |-> self.payer]

\* `payer = this.payer`: the default of an omitted argument.
PayerOr(self, payer) ==
    IF payer = NoSigner THEN LendingMarket_payer(self)
    ELSE [error |-> "none", signer |-> payer]

\* The keys the instructions of a transaction flag as signers.
RequiredSigners(transaction) ==
    UNION {{transaction[i].keys[k].pubkey :
               k \in {j \in DOMAIN transaction[i].keys : transaction[i].keys[j].isSigner}} :
           i \in DOMAIN transaction}

\* sendAndConfirmTransaction(connection, tx, signers): the transaction is
\* compiled, signed by the signers and sent.  Compiling throws on a
\* reference whose address is undefined; signing leaves a required
\* signature missing when a key flagged signer is none of the signers', and
\* the transaction is refused before it is sent.
sendAndConfirmTransaction(transaction, signers) ==
    LET keys == {signers[i].publicKey : i \in DOMAIN signers} IN
    IF \E i \in DOMAIN transaction : \E k \in DOMAIN transaction[i].keys :
          transaction[i].keys[k].pubkey = NoAddress
    THEN [error |-> TypeError, sent |-> << >>]
    ELSE IF RequiredSigners(transaction) \subseteq keys
    THEN [error |-> "none",
          sent  |-> <<[transaction |-> transaction, signers |-> signers]>>]
    ELSE [error |-> "Signature verification failed", sent |-> << >>]

\* A submitting method that threw on the evaluation of its payer, before its
\* body fetched or built anything.
NotBuilt(error) ==
    [error |-> error, entered |-> FALSE, builder |-> "none", tx |-> TxFailed(error),
     sendCalled |-> FALSE, signers |-> << >>, sent |-> << >>, value |-> NoAddress]

\* A submitting method after its builder `builder` returned or threw tx:
\* the transaction goes to sendAndConfirmTransaction with the signers, and
\* the method returns `value`.
Submit(builder, tx, signers, value) ==
    IF tx.error # "none"
    THEN [error |-> tx.error, entered |-> TRUE, builder |-> builder, tx |-> tx,
          sendCalled |-> FALSE, signers |-> << >>, sent |-> << >>, value |-> NoAddress]
    ELSE LET r == sendAndConfirmTransaction(tx.transaction, signers) IN
         [error |-> r.error, entered |-> TRUE, builder |-> builder, tx |-> tx,
          sendCalled |-> TRUE, signers |-> signers, sent |-> r.sent,
          value |-> IF r.error = "none" THEN value ELSE NoAddress]

LendingMarket_liquidityDeposit(self, ledger, gen, liquidityPubkey, uiAmount, source, destination) ==
    LET payer == LendingMarket_payer(self) IN
    IF payer.error # "none" THEN NotBuilt(payer.error)
    ELSE Submit("liquidityDepositTx",
                liquidityDepositTx(ledger, gen, liquidityPubkey, uiAmount, source,
                                   destination, payer.signer.publicKey),
                <<payer.signer>>, NoAddress)

LendingMarket_liquidityWithdraw(self, ledger, gen, liquidityPubkey, uiAmount, source, destination) ==
    LET payer == LendingMarket_payer(self) IN
    IF payer.error # "none" THEN NotBuilt(payer.error)
    ELSE Submit("liquidityWithdrawTx",
                liquidityWithdrawTx(ledger, gen, liquidityPubkey, uiAmount, source,
                                    destination, payer.signer.publicKey),
                <<payer.signer>>, NoAddress)

\* createObligation after createObligationTx returned { tx, pubkey }.
SubmitCreated(created, signers) ==
    Submit("createObligationTx", created, signers, created.pubkey)

\* createObligation with the payer evaluated.
CreateObligationAs(self, gen, liquidityPubkey, collateralPubkey, payer, signer) ==
    IF payer.error # "none" THEN NotBuilt(payer.error)
    ELSE IF signer.error # "none" THEN NotBuilt(signer.error)
    ELSE SubmitCreated(
             LendingMarket_createObligationTx(self, gen, liquidityPubkey,
                                              collateralPubkey, payer.signer.publicKey),
             <<signer.signer>>)

\* createObligation signing with the payer of the LendingMarket whatever
\* the payer given.
LendingMarket_createObligation_ownPayer(self, gen, liquidityPubkey, collateralPubkey, payerArg) ==
    CreateObligationAs(self, gen, liquidityPubkey, collateralPubkey,
                       PayerOr(self, payerArg), LendingMarket_payer(self))

LendingMarket_createObligation(self, gen, liquidityPubkey, collateralPubkey, payerArg) ==
    CreateObligationAs(self, gen, liquidityPubkey, collateralPubkey,
                       PayerOr(self, payerArg), PayerOr(self, payerArg))

LendingMarket_obligationCollateralDeposit(self, ledger, gen, obligationPubkey, uiAmount, source, payerArg) ==
    LET payer == PayerOr(self, payerArg) IN
    IF payer.error # "none" THEN NotBuilt(payer.error)
    ELSE Submit("obligationCollateralDepositTx",
                obligationCollateralDepositTx(ledger, gen, obligationPubkey, uiAmount,
                                              source, payer.signer.publicKey),
                <<payer.signer>>, NoAddress)

LendingMarket_obligationCollateralWithdraw(self, ledger, gen, obligationPubkey, uiAmount, destination, payerArg) ==
    LET payer == PayerOr(self, payerArg) IN
    IF payer.error # "none" THEN NotBuilt(payer.error)
    ELSE Submit("obligationCollateralWithdrawTx",
                obligationCollateralWithdrawTx(ledger, gen, obligationPubkey, uiAmount,
                                               destination),
                <<payer.signer>>, NoAddress)

LendingMarket_obligationLiquidityBorrow(self, ledger, gen, obligationPubkey, uiAmount, destination, payerArg) ==
    LET payer == PayerOr(self, payerArg) IN
    IF payer.error # "none" THEN NotBuilt(payer.error)
    ELSE Submit("obligationLiquidityBorrowTx",
                obligationLiquidityBorrowTx(ledger, gen, obligationPubkey, uiAmount,
                                            destination),
                <<payer.signer>>, NoAddress)

LendingMarket_obligationLiquidityRepay(self, ledger, gen, obligationPubkey, uiAmount, source, payerArg) ==
    LET payer == PayerOr(self, payerArg) IN
    IF payer.error # "none" THEN NotBuilt(payer.error)
    ELSE Submit("obligationLiquidityRepayTx",
                obligationLiquidityRepayTx(ledger, gen, obligationPubkey, uiAmount,
                                           source, payer.signer.publicKey),
                <<payer.signer>>, NoAddress)

LendingMarket_liquidateObligation(self, ledger, gen, obligationPubkey, source, destination, payerArg) ==
    LET payer == PayerOr(self, payerArg) IN
    IF payer.error # "none" THEN NotBuilt(payer.error)
    ELSE Submit("liquidateObligationTx",
                liquidateObligationTx(ledger, gen, obligationPubkey, source,
                                      destination, payer.signer.publicKey),
                <<payer.signer>>, NoAddress)

(***************************************************************************)
(* transaction.ts and the two methods of index.ts that create the token    *)
(* accounts of a provider or a borrower.                                   *)
(***************************************************************************)
\* AccountLayout.span of @solana/spl-token.
AccountLayout_span == 165

\* Token.getMinBalanceRentForExemptAccount: what the cluster asks for an
\* account of that size.
RentExempt == 2039280

\* The u32 little-endian index of an instruction of the system program.
u32le(n) == <<n % 256, (n \div 256) % 256, 0, 0>>

\* createTokenAccountTx: SystemProgram.createAccount, signed by the funding
\* and by the new account, then the token program's InitializeAccount.
createTokenAccountTx(from, account, mint, owner, rent) ==
    << TransactionInstruction(
           <<Meta(from, TRUE, TRUE), Meta(account, TRUE, TRUE)>>,
           SystemProgram_programId,
           u32le(0) \o u64_toBuffer(new_u64(rent)).buffer
                    \o u64_toBuffer(new_u64(AccountLayout_span)).buffer
                    \o TOKEN_PROGRAM_ID),
       TransactionInstruction(
           <<Meta(account, FALSE, TRUE), Meta(mint, FALSE, FALSE),
             Meta(owner, FALSE, FALSE), Meta(SYSVAR_RENT_PUBKEY, FALSE, FALSE)>>,
           TOKEN_PROGRAM_ID,
           <<1>>) >>

\* A transaction made outside the encoders of instruction.ts.
PlainTx(transaction) ==
    [error |-> "none", params |-> NoParams, allocated |-> FALSE,
     transaction |-> transaction]

\* generateProviderAccounts, with the two keypairs Keypair.generate() drew.
LendingMarket_generateProviderAccounts(self, ledger, gen, liquidityPubkey, payerArg, tokenAccount, poolAccount) ==
    LET payer     == PayerOr(self, payerArg)
        liquidity == getLiquidityInfo(ledger, gen, liquidityPubkey)
    IN  IF payer.error # "none" THEN NotBuilt(payer.error)
        ELSE IF liquidity.error # "none"
        THEN Submit("none", TxFailed(liquidity.error), << >>, NoAddress)
        ELSE Submit("createTokenAccountTx",
                    PlainTx(createTokenAccountTx(payer.signer.publicKey,
                                tokenAccount.publicKey,
                                Property(liquidity.entity, "tokenMint"),
                                payer.signer.publicKey, RentExempt)
                            \o createTokenAccountTx(payer.signer.publicKey,
                                poolAccount.publicKey,
                                Property(liquidity.entity, "poolMint"),
                                payer.signer.publicKey, RentExempt)),
                    <<payer.signer, tokenAccount, poolAccount>>,
                    <<tokenAccount.publicKey, poolAccount.publicKey>>)

\* generateBorrowerAccounts, with the two keypairs Keypair.generate() drew.
LendingMarket_generateBorrowerAccounts(self, ledger, gen, liquidityPubkey, collateralPubkey, payerArg, liquidityTokenAccount, collateralTokenAccount) ==
    LET payer      == PayerOr(self, payerArg)
        liquidity  == getLiquidityInfo(ledger, gen, liquidityPubkey)
        collateral == getCollateralInfo(ledger, gen, collateralPubkey)
    IN  IF payer.error # "none" THEN NotBuilt(payer.error)
        ELSE IF liquidity.error # "none"
        THEN Submit("none", TxFailed(liquidity.error), << >>, NoAddress)
        ELSE IF collateral.error # "none"
        THEN Submit("none", TxFailed(collateral.error), << >>, NoAddress)
        ELSE Submit("createTokenAccountTx",
                    PlainTx(createTokenAccountTx(payer.signer.publicKey,
                                liquidityTokenAccount.publicKey,
                                Property(liquidity.entity, "tokenMint"),
                                payer.signer.publicKey, RentExempt)
                            \o createTokenAccountTx(payer.signer.publicKey,
                                collateralTokenAccount.publicKey,
                                Property(collateral.entity, "tokenMint"),
                                payer.signer.publicKey, RentExempt)),
                    <<payer.signer, liquidityTokenAccount, collateralTokenAccount>>,
                    <<liquidityTokenAccount.publicKey, collateralTokenAccount.publicKey>>)

(***************************************************************************)
(* SpecClient: a LendingMarket with or without a payer, its submitting     *)
(* methods, each running its builder, and its token enumerations, on a     *)
(* ledger other parties have written to.                                   *)
(***************************************************************************)
\* A signer other than the owner of the deployed obligation.
OTHER_PAYER == Key(30)

\* The payer a LendingMarket is initialised with: none or the owner.
ConfiguredPayers == {NoSigner, Signer(OWNER_KEY)}

\* The payer argument of a call: omitted or another signer.
PayerArgs == {NoSigner, Signer(OTHER_PAYER)}

\* The amount and the pool the submitting methods are called with.
ClientAmount == 1
ClientPool   == LiquidityAddress(0)

CallSubmit(gen, r) == IF ModuleLoads(gen) THEN r ELSE NotBuilt(TypeError)

SubmitOutcome(op, command, pubkey, uiAmount, payer, r) ==
    [op |-> op, kind |-> command, pubkey |-> pubkey, error |-> r.error,
     info |-> NoAccount, entity |-> NoEntity,
     uiAmount |-> uiAmount, params |-> r.tx.params, allocated |-> r.tx.allocated,
     transaction |-> r.tx.transaction, value |-> r.value, fetched |-> {},
     payer |-> payer, entered |-> r.entered, builder |-> r.builder,
     sendCalled |-> r.sendCalled,
     signers |-> r.signers, sent |-> r.sent]

InitClient ==
    /\ registry \in Generations
    /\ \E n \in 0..MaxPools :
         accounts = [k \in MarketKeys |-> DeployedAccount(registry, n, k)]
    /\ writes = 0
    /\ result = NoResult
    /\ \E payer \in ConfiguredPayers :
         lendingMarket = LendingMarket_init(MARKET_PUBKEY, payer)

LiquidityDeposit ==
    /\ result = NoResult
    /\ result' = SubmitOutcome("liquidityDeposit", "LiquidityDeposit", ClientPool, ClientAmount, NoSigner,
                    CallSubmit(registry,
                        LendingMarket_liquidityDeposit(lendingMarket, accounts, registry, ClientPool, ClientAmount, SOURCE, DESTINATION)))
    /\ UNCHANGED <<registry, accounts, writes, lendingMarket>>

LiquidityWithdraw ==
    /\ result = NoResult
    /\ result' = SubmitOutcome("liquidityWithdraw", "LiquidityWithdraw", ClientPool, ClientAmount, NoSigner,
                    CallSubmit(registry,
                        LendingMarket_liquidityWithdraw(lendingMarket, accounts, registry, ClientPool, ClientAmount, SOURCE, DESTINATION)))
    /\ UNCHANGED <<registry, accounts, writes, lendingMarket>>

CreateObligation ==
    /\ result = NoResult
    /\ \E payer \in PayerArgs :
         result' = SubmitOutcome("createObligation", "CreateObligation", ClientPool, 0, payer,
                      CallSubmit(registry,
                          LendingMarket_createObligation(lendingMarket, registry, ClientPool, CollateralAddress(0), payer)))
    /\ UNCHANGED <<registry, accounts, writes, lendingMarket>>

ObligationCollateralDeposit ==
    /\ result = NoResult
    /\ \E payer \in PayerArgs :
         result' = SubmitOutcome("obligationCollateralDeposit", "ObligationCollateralDeposit", OBLIGATION_PUBKEY, ClientAmount, payer,
                      CallSubmit(registry,
                          LendingMarket_obligationCollateralDeposit(lendingMarket, accounts, registry, OBLIGATION_PUBKEY, ClientAmount, SOURCE, payer)))
    /\ UNCHANGED <<registry, accounts, writes, lendingMarket>>

ObligationCollateralWithdraw ==
    /\ result = NoResult
    /\ \E payer \in PayerArgs :
         result' = SubmitOutcome("obligationCollateralWithdraw", "ObligationCollateralWithdraw", OBLIGATION_PUBKEY, ClientAmount, payer,
                      CallSubmit(registry,
                          LendingMarket_obligationCollateralWithdraw(lendingMarket, accounts, registry, OBLIGATION_PUBKEY, ClientAmount, DESTINATION, payer)))
    /\ UNCHANGED <<registry, accounts, writes, lendingMarket>>

ObligationLiquidityBorrow ==
    /\ result = NoResult
    /\ \E payer \in PayerArgs :
         result' = SubmitOutcome("obligationLiquidityBorrow", "ObligationLiquidityBorrow", OBLIGATION_PUBKEY, ClientAmount, payer,
                      CallSubmit(registry,
                          LendingMarket_obligationLiquidityBorrow(lendingMarket, accounts, registry, OBLIGATION_PUBKEY, ClientAmount, DESTINATION, payer)))
    /\ UNCHANGED <<registry, accounts, writes, lendingMarket>>

ObligationLiquidityRepay ==
    /\ result = NoResult
    /\ \E payer \in PayerArgs :
         result' = SubmitOutcome("obligationLiquidityRepay", "ObligationLiquidityRepay", OBLIGATION_PUBKEY, ClientAmount, payer,
                      CallSubmit(registry,
                          LendingMarket_obligationLiquidityRepay(lendingMarket, accounts, registry, OBLIGATION_PUBKEY, ClientAmount, SOURCE, payer)))
    /\ UNCHANGED <<registry, accounts, writes, lendingMarket>>

LiquidateObligation ==
    /\ result = NoResult
    /\ \E payer \in PayerArgs :
         result' = SubmitOutcome("liquidateObligation", "LiquidateObligation", OBLIGATION_PUBKEY, 0, payer,
                      CallSubmit(registry,
                          LendingMarket_liquidateObligation(lendingMarket, accounts, registry, OBLIGATION_PUBKEY, SOURCE, DESTINATION, payer)))
    /\ UNCHANGED <<registry, accounts, writes, lendingMarket>>

\* The accounts the operations of a client read in the deployed market.
ClientKeys ==
    { OBLIGATION_PUBKEY, LiquidityAddress(0), CollateralAddress(0),
      TOKEN_MINT, POOL_MINT, COLLATERAL_MINT }

\* Another party closes one of these accounts, or leaves a pool account to
\* another program or with another size, before the client calls.
ClientWrite ==
    /\ writes < MaxWrites
    /\ result = NoResult
    /\ \E k \in ClientKeys :
         \E a \in (IF k \in {TOKEN_MINT, POOL_MINT, COLLATERAL_MINT}
                   THEN {NoAccount}
                   ELSE MarketWritePool(registry, k, accounts[k])) :
            accounts' = [accounts EXCEPT ![k] = a]
    /\ writes' = writes + 1
    /\ UNCHANGED <<registry, result, lendingMarket>>

\* The keypairs Keypair.generate() may draw.
GeneratedKeys == {Key(0), Key(31)}

GenerateProviderAccounts ==
    /\ result = NoResult
    /\ \E payer \in PayerArgs, a \in GeneratedKeys :
       \E b \in GeneratedKeys \ {a} :
         result' = SubmitOutcome("generateProviderAccounts", "none", ClientPool, 0, payer,
                      CallSubmit(registry,
                          LendingMarket_generateProviderAccounts(lendingMarket, accounts,
                              registry, ClientPool, payer, Signer(a), Signer(b))))
    /\ UNCHANGED <<registry, accounts, writes, lendingMarket>>

GenerateBorrowerAccounts ==
    /\ result = NoResult
    /\ \E payer \in PayerArgs, a \in GeneratedKeys :
       \E b \in GeneratedKeys \ {a} :
         result' = SubmitOutcome("generateBorrowerAccounts", "none", ClientPool, 0, payer,
                      CallSubmit(registry,
                          LendingMarket_generateBorrowerAccounts(lendingMarket, accounts,
                              registry, ClientPool, CollateralAddress(0), payer,
                              Signer(a), Signer(b))))
    /\ UNCHANGED <<registry, accounts, writes, lendingMarket>>

NextClient ==
    \/ ClientWrite
    \/ GetLiquidityTokens
    \/ GetCollateralTokens
    \/ LiquidityDeposit
    \/ LiquidityWithdraw
    \/ CreateObligation
    \/ ObligationCollateralDeposit
    \/ ObligationCollateralWithdraw
    \/ ObligationLiquidityBorrow
    \/ ObligationLiquidityRepay
    \/ LiquidateObligation
    \/ GenerateProviderAccounts
    \/ GenerateBorrowerAccounts

SpecClient == InitClient /\ [][NextClient]_vars

(***************************************************************************)
(* Properties of the submitting methods (SpecClient).                      *)
(***************************************************************************)
SubmitOps ==
    { "liquidityDeposit", "liquidityWithdraw", "createObligation",
      "obligationCollateralDeposit", "obligationCollateralWithdraw",
      "obligationLiquidityBorrow", "obligationLiquidityRepay",
      "liquidateObligation", "generateProviderAccounts",
      "generateBorrowerAccounts" }

\* The signer a call runs with: the payer argument, or the payer of the
\* LendingMarket when the argument is omitted.
EffectivePayer == IF result.payer = NoSigner THEN lendingMarket.payer ELSE result.payer

\* The keys of the signers handed to sendAndConfirmTransaction.
SignerKeys == {result.signers[i].publicKey : i \in DOMAIN result.signers}

\* C25: createObligation(liquidity, collateral, payer) uses payer.publicKey
\* as the first seed of the obligation authority, as the owner reference,
\* which is flagged signer, and as the key of the only signer handed to the
\* submission.
C25_PayerIsOwner ==
    (result.op = "createObligation" /\ result.params # NoParams) =>
        LET key == EffectivePayer.publicKey IN
        /\ result.params.owner = key
        /\ result.params.obligation =
              ObligationAddress(key, lendingMarket.pubkey, ClientPool,
                                CollateralAddress(0), lendingMarket.programId)
        /\ result.transaction # << >> =>
              /\ SignerPositions(result.transaction[1]) # {}
              /\ \A k \in SignerPositions(result.transaction[1]) :
                    result.transaction[1].keys[k].pubkey = key
              /\ result.transaction[1].keys[1].pubkey = result.params.obligation
        /\ result.sendCalled => result.signers = <<Signer(key)>>
        /\ result.error = "none" =>
              /\ result.value = result.params.obligation
              /\ Len(result.sent) = 1
              /\ result.sent[1].signers = <<Signer(key)>>

\* createObligation was called with another payer than the one the
\* LendingMarket was initialised with, and the transaction went out signed
\* by that payer alone.
C25_Witness ==
    /\ result.op = "createObligation"
    /\ result.error = "none"
    /\ lendingMarket.payer = Signer(OWNER_KEY)
    /\ result.payer = Signer(OTHER_PAYER)
    /\ result.params.owner = OTHER_PAYER
    /\ result.sent # << >>
    /\ result.signers = <<Signer(OTHER_PAYER)>>

\* C26: in every submitting method, each reference the built transaction
\* flags as signer has its key among the signers handed to
\* sendAndConfirmTransaction, whatever the payer argument.
C26_SignersPresent ==
    (result.op \in SubmitOps /\ result.sendCalled) =>
        RequiredSigners(result.transaction) \subseteq SignerKeys

\* C28: a LendingMarket without a payer fails every submitting method called
\* without a payer argument with 'Payer not specified', before its body
\* (and so any fetch) runs and with nothing handed to submission; the
\* builders do not read the payer (a method given a payer argument gets
\* through its builder on a LendingMarket without one, and createObligationTx
\* returns the same transaction whatever the payer), and no call changes
\* pubkey, programId or payer of the LendingMarket.
C28_PayerNotSpecified ==
    /\ [](/\ (/\ result.op \in SubmitOps
              /\ ModuleLoads(registry)
              /\ lendingMarket.payer = NoSigner
              /\ result.payer = NoSigner) =>
                 /\ result.error = "Payer not specified"
                 /\ ~result.entered
                 /\ result.builder = "none"
                 /\ ~result.sendCalled
                 /\ result.transaction = << >>
                 /\ result.sent = << >>
          /\ (/\ result.op \in SubmitOps
              /\ ModuleLoads(registry)
              /\ result.payer # NoSigner) =>
                 /\ result.entered
                 /\ result.error # "Payer not specified"
          /\ (/\ result.op = "createObligation"
              /\ result.entered) =>
                \A payer \in ConfiguredPayers \cup PayerArgs :
                    LendingMarket_createObligationTx(
                        LendingMarket_init(MARKET_PUBKEY, payer), registry,
                        result.pubkey, CollateralAddress(0),
                        EffectivePayer.publicKey).transaction
                      = result.transaction)
    /\ [][lendingMarket' = lendingMarket]_vars

\* A LendingMarket without a payer refused a deposit before building it.
C28_Witness ==
    /\ result.op = "liquidityDeposit"
    /\ lendingMarket.payer = NoSigner
    /\ accounts[ClientPool].exists
    /\ result.error = "Payer not specified"
    /\ result.builder = "none"

\* The accounts an operation fetches, in the order of its fetches, in the
\* deployed market: the record it is called with, the records the obligation
\* refers to, and the mint whose decimals scale the amount.
Needs(op) ==
    CASE op \in {"liquidityDepositTx", "liquidityDeposit"} -> <<result.pubkey, TOKEN_MINT>>
      [] op \in {"liquidityWithdrawTx", "liquidityWithdraw"} -> <<result.pubkey, POOL_MINT>>
      [] op \in {"obligationCollateralDepositTx", "obligationCollateralDeposit"} ->
            <<OBLIGATION_PUBKEY, CollateralAddress(0), COLLATERAL_MINT>>
      [] op \in {"obligationCollateralWithdrawTx", "obligationCollateralWithdraw"} ->
            <<OBLIGATION_PUBKEY, LiquidityAddress(0), CollateralAddress(0), COLLATERAL_MINT>>
      [] op \in {"obligationLiquidityBorrowTx", "obligationLiquidityBorrow"} ->
            <<OBLIGATION_PUBKEY, LiquidityAddress(0), CollateralAddress(0), TOKEN_MINT>>
      [] op \in {"obligationLiquidityRepayTx", "obligationLiquidityRepay"} ->
            <<OBLIGATION_PUBKEY, LiquidityAddress(0), TOKEN_MINT>>
      [] op \in {"liquidateObligationTx", "liquidateObligation"} ->
            <<OBLIGATION_PUBKEY, LiquidityAddress(0), CollateralAddress(0)>>
      [] op = "generateProviderAccounts" -> <<result.pubkey>>
      [] op = "generateBorrowerAccounts" -> <<result.pubkey, CollateralAddress(0)>>
      [] OTHER -> << >>

\* An operation ran: a builder was called, or a submitting method got past
\* the evaluation of its payer.
OperationRan ==
    /\ ModuleLoads(registry)
    /\ \/ result.op \in BuilderOps
       \/ result.op \in SubmitOps /\ result.entered

\* The account at an address is missing, of another owner or of another
\* size than the layout of the enumerated kind.
BadItem(key) ==
    \/ ~accounts[key].exists
    \/ accounts[key].owner # PROGRAM_ID
    \/ Len(accounts[key].data) #
          span(IF result.op = "getLiquidityTokens"
               THEN LiquidityLayout(registry) ELSE CollateralLayout(registry))

\* The count of the enumerated kind can be read from the market record.
CountReadable ==
    /\ getMarketInfo(accounts, registry).error = "none"
    /\ \E n \in 0..(MaxPools + 1) :
          CountBytes(n) =
             (IF result.op = "getLiquidityTokens"
              THEN decode(MarketLayout(registry), accounts[MARKET_PUBKEY].data).liquidity_tokens
              ELSE decode(MarketLayout(registry), accounts[MARKET_PUBKEY].data).collateral_tokens)

MaxInterleaved == 2

MultiFetchOps ==
    { "obligationCollateralDepositTx", "obligationCollateralWithdrawTx",
      "obligationLiquidityBorrowTx", "obligationLiquidityRepayTx",
      "liquidateObligationTx" }

\* The awaits of a builder, in the order of its code.
Plan(op) ==
    CASE op = "obligationCollateralDepositTx"  -> <<"obligation", "collateral", "mint">>
      [] op = "obligationCollateralWithdrawTx" ->
            <<"obligation", "liquidity", "collateral", "mint">>
      [] op = "obligationLiquidityBorrowTx" ->
            <<"obligation", "liquidity", "collateral", "mint">>
      [] op = "obligationLiquidityRepayTx"     -> <<"obligation", "liquidity", "mint">>
      [] op = "liquidateObligationTx"          -> <<"obligation", "liquidity", "collateral">>

\* The builder run on the accounts of `ledger` in one piece.
RunBuilder(op, ledger, gen) ==
    CASE op = "obligationCollateralDepositTx" ->
            obligationCollateralDepositTx(ledger, gen, OBLIGATION_PUBKEY, ClientAmount,
                                          SOURCE, USER_TRANSFER_AUTHORITY)
      [] op = "obligationCollateralWithdrawTx" ->
            obligationCollateralWithdrawTx(ledger, gen, OBLIGATION_PUBKEY, ClientAmount,
                                           DESTINATION)
      [] op = "obligationLiquidityBorrowTx" ->
            obligationLiquidityBorrowTx(ledger, gen, OBLIGATION_PUBKEY, ClientAmount,
                                        DESTINATION)
      [] op = "obligationLiquidityRepayTx" ->
            obligationLiquidityRepayTx(ledger, gen, OBLIGATION_PUBKEY, ClientAmount,
                                       SOURCE, USER_TRANSFER_AUTHORITY)
      [] op = "liquidateObligationTx" ->
            liquidateObligationTx(ledger, gen, OBLIGATION_PUBKEY, SOURCE, DESTINATION,
                                  USER_TRANSFER_AUTHORITY)

\* The address an await of the given kind reads, from the records the
\* earlier awaits returned: the obligation's liquidity or collateral, and the
\* token mint of the collateral (deposit and withdraw of collateral) or of
\* the liquidity (borrow and repay).
AwaitedKey(op, kind, view, gen) ==
    LET obligation == getObligationInfo(view, gen, OBLIGATION_PUBKEY).entity IN
    CASE kind = "obligation" -> OBLIGATION_PUBKEY
      [] kind = "liquidity"  -> obligation.liquidity
      [] kind = "collateral" -> obligation.collateral
      [] kind = "mint" ->
            IF op \in {"obligationCollateralDepositTx", "obligationCollateralWithdrawTx"}
            THEN getCollateralInfo(view, gen, obligation.collateral).entity.tokenMint
            ELSE getLiquidityInfo(view, gen, obligation.liquidity).entity.tokenMint

\* The error an await throws on the account it got.
AwaitError(kind, view, gen, key) ==
    CASE kind = "obligation" -> getObligationInfo(view, gen, key).error
      [] kind = "liquidity"  -> getLiquidityInfo(view, gen, key).error
      [] kind = "collateral" -> getCollateralInfo(view, gen, key).error
      [] kind = "mint"       -> getMintDecimals(view, key).error

\* The frame of a call: the awaits done, the accounts they returned (view),
\* and the states the ledger went through since the call began (seen).
Frame(op, pc, step, error, view, seen, tx) ==
    [op |-> op, kind |-> "builder", pubkey |-> OBLIGATION_PUBKEY, error |-> error,
     info |-> NoAccount, entity |-> NoEntity,
     pc |-> pc, step |-> step, view |-> view, seen |-> seen,
     uiAmount |-> ClientAmount, params |-> tx.params, allocated |-> tx.allocated,
     transaction |-> tx.transaction]

NothingRead == [k \in MarketKeys |-> NoAccount]

InFlight == result # NoResult /\ result.pc = "await"

InitInterleaved ==
    /\ registry \in Generations
    /\ \E n \in {0, MaxPools} :
         accounts = [k \in MarketKeys |-> DeployedAccount(registry, n, k)]
    /\ writes = 0
    /\ result = NoResult
    /\ lendingMarket = LendingMarket_init(MARKET_PUBKEY, NoSigner)

\* A builder is called; nothing runs when the layout module fails to load.
BeginBuilder ==
    /\ result = NoResult
    /\ \E op \in MultiFetchOps :
         result' = IF ModuleLoads(registry)
                   THEN Frame(op, "await", 0, "none", NothingRead, {accounts},
                              TxFailed("none"))
                   ELSE Frame(op, "done", 0, TypeError, NothingRead, {accounts},
                              TxFailed(TypeError))
    /\ UNCHANGED <<registry, accounts, writes, lendingMarket>>

\* One await of the call in flight: the account is read from the ledger as
\* it is now; the call ends when the read throws.
Await(kind) ==
    /\ InFlight
    /\ result.step < Len(Plan(result.op))
    /\ Plan(result.op)[result.step + 1] = kind
    /\ LET key   == AwaitedKey(result.op, kind, result.view, registry)
           view  == [result.view EXCEPT ![key] = accounts[key]]
           error == AwaitError(kind, view, registry, key)
       IN  result' = IF error = "none"
                     THEN [result EXCEPT !.step = @ + 1, !.view = view]
                     ELSE [result EXCEPT !.step = @ + 1, !.view = view,
                                         !.pc = "done", !.error = error]
    /\ UNCHANGED <<registry, accounts, writes, lendingMarket>>

AwaitObligation == Await("obligation")

AwaitLiquidity == Await("liquidity")

AwaitCollateral == Await("collateral")

AwaitMint == Await("mint")

\* The frame of a call that returned tx or threw its error.
Returned(frame, tx) ==
    [frame EXCEPT !.pc = "done", !.error = tx.error, !.params = tx.params,
                  !.allocated = tx.allocated, !.transaction = tx.transaction]

\* After the last await the instruction is built from the values read.
BuildInstruction ==
    /\ InFlight
    /\ result.step = Len(Plan(result.op))
    /\ result' = Returned(result, RunBuilder(result.op, result.view, registry))
    /\ UNCHANGED <<registry, accounts, writes, lendingMarket>>

\* Another party closes a record or rewrites a mint while the call is in
\* flight.
ConcurrentWrite ==
    /\ InFlight
    /\ writes < MaxInterleaved
    /\ \E k \in ClientKeys \ {POOL_MINT} :
         /\ accounts[k].exists
         /\ LET a == IF k \in {TOKEN_MINT, COLLATERAL_MINT}
                     THEN Account(TOKEN_PROGRAM_ID,
                                  MintRecord(CHOOSE d \in MintDecimals : d > DeployedDecimals))
                     ELSE NoAccount
            IN  /\ a # accounts[k]
                /\ accounts' = [accounts EXCEPT ![k] = a]
                /\ result' = [result EXCEPT !.seen = @ \cup {accounts'}]
    /\ writes' = writes + 1
    /\ UNCHANGED <<registry, lendingMarket>>

NextInterleaved ==
    \/ BeginBuilder
    \/ AwaitObligation
    \/ AwaitLiquidity
    \/ AwaitCollateral
    \/ AwaitMint
    \/ BuildInstruction
    \/ ConcurrentWrite

SpecInterleaved == InitInterleaved /\ [][NextInterleaved]_vars

\* A call in flight ended.
CallDone == result # NoResult /\ result.pc = "done"

\* C29: a multi-fetch builder takes the liquidity and collateral references
\* from the obligation it decoded and the token accounts from the records at
\* those addresses, and the transaction it returns is the transaction the
\* builder returns on one single state the ledger was in during the call,
\* even when accounts are written between its fetches.
C29_SingleLedgerState ==
    (CallDone /\ result.error = "none") =>
        LET obligation == getObligationInfo(result.view, registry, OBLIGATION_PUBKEY).entity
            p          == result.params
        IN  /\ "liquidity" \in DOMAIN p => p.liquidity = obligation.liquidity
            /\ "collateral" \in DOMAIN p => p.collateral = obligation.collateral
            /\ "liquidityTokenAccount" \in DOMAIN p =>
                  p.liquidityTokenAccount =
                     getLiquidityInfo(result.view, registry,
                                      obligation.liquidity).entity.tokenAccount
            /\ "collateralTokenAccount" \in DOMAIN p =>
                  p.collateralTokenAccount =
                     getCollateralInfo(result.view, registry,
                                       obligation.collateral).entity.tokenAccount
            /\ \E ledger \in result.seen :
                  /\ RunBuilder(result.op, ledger, registry).error = "none"
                  /\ RunBuilder(result.op, ledger, registry).transaction
                        = result.transaction

\* Without a write during the call, the awaits one by one return what the
\* builder returns in one piece.
StepwiseAgrees ==
    (CallDone /\ Cardinality(result.seen) = 1) =>
        LET tx == CallBuilder(registry, RunBuilder(result.op, accounts, registry)) IN
        /\ result.error = tx.error
        /\ result.transaction = tx.transaction
        /\ result.params = tx.params
====
